---------------------------- MODULE Spec2Model ----------------------------
(***************************************************************************)
(* Mediabunny Player (src/src/main.ts).  The file holds two iterations of  *)
(* the widget:                                                             *)
(*   - the GL variant (lines 1-827): a playlist of videos, cross-faded by  *)
(*     a WebGL transition, driven by switchToVideo;                        *)
(*   - the Media variant (lines 829-1563): a playlist of videos and        *)
(*     images with background music, driven by switchToMedia.              *)
(* Each controller is one record (gl, md) whose fields are the fields of   *)
(* the class plus the browser state the handlers read and write: the media *)
(* elements, their queued events, pending frame callbacks and the position *)
(* of every async function that is suspended at an await.  A handler is an *)
(* operator from controller state to controller state; an action applies   *)
(* one handler (a browser task together with the microtasks it releases).  *)
(* Times are in milliseconds.  Progress values are kept as numerators over *)
(* the transition duration, so progress 1 is TransitionDuration.           *)
(***************************************************************************)
EXTENDS Integers, Sequences, FiniteSets, TLC

VARIABLES variant, gl, md, vl, rd, mt

vars == <<variant, gl, md, vl, rd, mt>>

Min(a, b) == IF a < b THEN a ELSE b

\* Op applied to the value of v: one statement after another.
Then(v, Op(_)) == CHOOSE r \in {Op(x) : x \in {v}} : TRUE

\* ------------------------------------------------------------------ bounds
MaxElems == 2
MaxPend == 2
MaxOrphans == 1
TimeUnit == 750
MaxSkip == 2
MaxSwitches == 1
MaxAdjusts == 3
VolTimeUnit == 125
ImageTimeUnit == 2500
SeekTimes == {0, 2500, 5000}

\* ------------------------------------------------------- program constants
demoVideoUrls == <<"Brian.mp4", "Vaibhav.mp4", "abbey_bradley.mp4">>
VideoCount == Len(demoVideoUrls)
TransitionDuration == 1500
VolumeRampDuration == 500

ElemIds == 1..MaxElems
RequestIndices == (0 - 1)..VideoCount

(***************************************************************************)
(* GL variant: media elements                                              *)
(***************************************************************************)
\* A slot of the element pool that holds no element.
DeadElem ==
  [alive |-> FALSE, attached |-> FALSE, paused |-> TRUE, src |-> 0,
   ready |-> "loading", lst |-> "none", pend |-> <<>>,
   waitToggle |-> FALSE, doomedToggle |-> FALSE]

\* document.createElement('video') + appendChild + src, as both loaders do.
\* lst names the playback listeners on the element: "initial" for the
\* anonymous ones of loadCurrentVideo, "stored" for the ones of
\* setupVideoEventListeners, "none" for a pending video.
NewVideo(index, lst) ==
  [alive |-> TRUE, attached |-> TRUE, paused |-> TRUE, src |-> index,
   ready |-> "loading", lst |-> lst, pend |-> <<>>,
   waitToggle |-> FALSE, doomedToggle |-> FALSE]

\* An element nothing can reach any more: removed from the document, not
\* referenced by the player, no promise of togglePlay pending on it, and
\* either no playback listener on it, or no event queued, not playing and
\* not about to fire 'loadedmetadata' at the listener of loadCurrentVideo.
Garbage(g, e) ==
  LET el == g.elems[e] IN
  /\ el.alive
  /\ ~el.attached
  /\ el.paused \/ el.ready = "error"
  /\ e # g.currentVideo /\ e # g.nextVideo
  /\ ~el.waitToggle /\ ~el.doomedToggle
  /\ \/ el.lst = "none"
     \/ /\ el.pend = <<>>
        /\ el.paused
        /\ (el.lst = "stored" \/ el.ready # "loading")

\* An event queued on an element that has no playback listener and no
\* promise to reject does nothing when it fires: it is dropped here.
Inert(el) == el.lst = "none" /\ ~el.doomedToggle

DropInert(el) == IF Inert(el) THEN [el EXCEPT !.pend = <<>>] ELSE el

\* Element ids are names only.  After every handler the garbage is dropped
\* and the elements are renamed: the current video first, then the pending
\* one, then the others in their old order.
RECURSIVE SortedSeq(_)
SortedSeq(S) ==
  IF S = {} THEN <<>>
  ELSE LET m == CHOOSE x \in S : \A y \in S : x <= y
       IN <<m>> \o SortedSeq(S \ {m})

ElemOrder(g) ==
  (IF g.currentVideo # 0 THEN <<g.currentVideo>> ELSE <<>>)
  \o (IF g.nextVideo # 0 THEN <<g.nextVideo>> ELSE <<>>)
  \o SortedSeq({e \in ElemIds : /\ g.elems[e].alive
                                /\ ~Garbage(g, e)
                                /\ e # g.currentVideo
                                /\ e # g.nextVideo})

PositionIn(order, e) ==
  IF \E i \in 1..Len(order) : order[i] = e
  THEN CHOOSE i \in 1..Len(order) : order[i] = e
  ELSE 0

Renumber(g, order) ==
  [g EXCEPT !.elems = [i \in ElemIds |->
                         IF i <= Len(order) THEN DropInert(g.elems[order[i]])
                         ELSE DeadElem],
            !.currentVideo = PositionIn(order, @),
            !.nextVideo = PositionIn(order, @),
            !.storedOn = PositionIn(order, @)]

Gc(g) == CHOOSE r \in {Renumber(g, order) : order \in {ElemOrder(g)}} : TRUE

FreeElems(g) == {e \in ElemIds : ~g.elems[e].alive}

NewElemId(g) ==
  IF FreeElems(g) = {} THEN 0
  ELSE CHOOSE e \in FreeElems(g) : \A f \in FreeElems(g) : e <= f

\* HTMLMediaElement.pause(): a playing element becomes paused and a task is
\* queued that fires 'pause' and rejects the play promises pending now.
ElPause(g, e) ==
  IF g.elems[e].paused THEN g
  ELSE [g EXCEPT !.elems[e].paused = TRUE,
                 !.elems[e].pend = Append(@, "pause"),
                 !.elems[e].doomedToggle = @ \/ g.elems[e].waitToggle,
                 !.elems[e].waitToggle = FALSE]

\* HTMLMediaElement.play() when the platform allows it: a paused element
\* becomes unpaused and a task is queued that fires 'play'.
ElPlay(g, e) ==
  IF ~g.elems[e].paused THEN g
  ELSE [g EXCEPT !.elems[e].paused = FALSE,
                 !.elems[e].pend = Append(@, "play")]

(***************************************************************************)
(* GL variant: frame callbacks                                             *)
(***************************************************************************)
\* Pending requestAnimationFrame callbacks, without their numeric ids:
\*   renderFrame  the pending render callback whose id animationId holds
\*                ("render": renderFrame, "single": the one-shot callback);
\*   orphans      pending render callbacks whose id animationId no longer
\*                holds, so that nothing can cancel them;
\*   rampFrame    the pending animateTransition callback (its id is never
\*                stored).
\* animationId is "null" or "set".
NoOrphans == [render |-> 0, single |-> 0]

\* requestAnimationFrame(animateTransition)
RequestFrame(g) ==
  IF g.rampFrame THEN [g EXCEPT !.oom = TRUE]
  ELSE [g EXCEPT !.rampFrame = TRUE]

\* this.animationId = requestAnimationFrame(cb)
RequestRender(g, kind) ==
  [g EXCEPT !.orphans = IF g.renderFrame = "none" THEN @
                        ELSE [@ EXCEPT ![g.renderFrame] = @ + 1],
            !.renderFrame = kind,
            !.animationId = "set"]

\* cancelAnimationFrame(this.animationId)
CancelAnimationFrame(g) == [g EXCEPT !.renderFrame = "none"]

\* drawn is not a field of the program: it collects the arguments of the
\* calls of glRenderer.render made so far.  progress is the numerator over
\* TransitionDuration, from and to name the player field whose video was
\* handed to updateFromTexture and updateToTexture, and transitioning is
\* isTransitioning at the time of the call.
Draw(g, progress, from, to) ==
  [g EXCEPT !.drawn = @ \cup {[progress |-> progress, from |-> from,
                               to |-> to,
                               transitioning |-> g.isTransitioning]}]

\* renderSingleFrame draws the current video; it writes no player field.
RenderSingleFrame(g) ==
  IF g.currentVideo # 0 THEN Draw(g, 0, "currentVideo", "currentVideo")
  ELSE g

\* The drawing branch of renderFrame chosen by the two videos alone.
DrawFrameByVideos(g) ==
  IF g.currentVideo # 0 /\ g.nextVideo # 0
  THEN Draw(g, g.transitionProgress, "currentVideo", "nextVideo")
  ELSE IF g.currentVideo # 0
  THEN Draw(g, 0, "currentVideo", "currentVideo")
  ELSE g

\* The drawing branches of renderFrame.
DrawFrame(g) ==
  IF g.isTransitioning /\ g.currentVideo # 0 /\ g.nextVideo # 0
  THEN Draw(g, g.transitionProgress, "currentVideo", "nextVideo")
  ELSE IF g.currentVideo # 0
  THEN Draw(g, 0, "currentVideo", "currentVideo")
  ELSE g

\* Then reschedule.
Reschedule(g) ==
  IF g.isPlaying \/ g.isTransitioning THEN RequestRender(g, "render")
  ELSE IF g.currentVideo # 0 THEN RequestRender(g, "single")
  ELSE g

\* The body of renderFrame: draw, then reschedule.
RenderFrame(g) == Reschedule(DrawFrame(g))

\* startVideoRender that does not cancel the pending callback.
StartVideoRenderNoCancel(g) ==
  RenderFrame(g)

StartVideoRender(g) ==
  RenderFrame(IF g.animationId # "null" THEN CancelAnimationFrame(g) ELSE g)

EnsureRendering(g) ==
  IF g.animationId = "null" /\ g.currentVideo # 0
  THEN (IF g.isPlaying THEN StartVideoRender(g) ELSE RenderSingleFrame(g))
  ELSE g

(***************************************************************************)
(* GL variant: listeners                                                   *)
(***************************************************************************)
\* storedOn is the element the closures kept in currentVideoEventListeners
\* were attached to (0: the object is empty).
RemoveVideoEventListeners(g) ==
  IF g.currentVideo # 0 /\ g.storedOn # 0
  THEN [g EXCEPT !.elems[g.currentVideo].lst =
                     IF g.storedOn = g.currentVideo /\ @ = "stored"
                     THEN "none" ELSE @,
                 !.storedOn = 0]
  ELSE g

SetupVideoEventListeners(g) ==
  IF g.currentVideo = 0 THEN g
  ELSE [RemoveVideoEventListeners(g) EXCEPT
          !.elems[g.currentVideo].lst = "stored",
          !.storedOn = g.currentVideo]

(***************************************************************************)
(* GL variant: switchToVideo and the functions it awaits                   *)
(***************************************************************************)
\* The suspended switchToVideo: where it waits (pc) and its locals.  There
\* is no call in flight when pc is "idle".
IdleSwitch ==
  [pc |-> "idle", index |-> 0, autoPlay |-> FALSE, wasPlaying |-> FALSE]

ShouldPlay(g) == g.sw.autoPlay \/ g.sw.wasPlaying

\* switchToVideo's guard without the test of isTransitioning.
SwitchToVideoGuardNotBusy(g, index) ==
  /\ index >= 0
  /\ index < VideoCount
  /\ index # g.currentIndex

SwitchToVideoGuard(g, index) ==
  /\ index >= 0
  /\ index < VideoCount
  /\ index # g.currentIndex
  /\ ~g.isTransitioning

\* loadNextVideo that attaches the playback listeners to the pending video.
LoadNextVideoWithListeners(g, index) ==
  LET g1 == IF g.nextVideo # 0
            THEN Gc([g EXCEPT !.elems[g.nextVideo].attached = FALSE,
                              !.nextVideo = 0])
            ELSE g
      id == NewElemId(g1)
  IN IF id = 0 THEN [g EXCEPT !.oom = TRUE]
     ELSE [g1 EXCEPT !.elems[id] = NewVideo(index, "stored"),
                     !.nextVideo = id]

\* The synchronous part of loadNextVideo; the promise settles in
\* LoadedMetadata or LoadError of the created element.
LoadNextVideo(g, index) ==
  LET g1 == IF g.nextVideo # 0
            THEN Gc([g EXCEPT !.elems[g.nextVideo].attached = FALSE,
                              !.nextVideo = 0])
            ELSE g
      id == NewElemId(g1)
  IN IF id = 0 THEN [g EXCEPT !.oom = TRUE]
     ELSE [g1 EXCEPT !.elems[id] = NewVideo(index, "none"), !.nextVideo = id]

\* catch (error) of switchToVideo.
SwitchCatch(g) ==
  RenderSingleFrame(
    [g EXCEPT !.status = "Transition error",
              !.isTransitioning = FALSE,
              !.sw = IdleSwitch])

\* The old video is paused and stripped of its listeners but stays in the
\* document.
RetireCurrentVideoKeepsElement(g) ==
  LET old == g.currentVideo IN
  IF old # 0 THEN RemoveVideoEventListeners(ElPause(g, old)) ELSE g

\* switchToVideo after performGLTransition has resolved, in three steps:
\* the old video is paused, stripped of its listeners and removed;
RetireCurrentVideo(g) ==
  LET old == g.currentVideo IN
  IF old # 0
  THEN [RemoveVideoEventListeners(ElPause(g, old)) EXCEPT
          !.elems[old].attached = FALSE]
  ELSE g

\* The swap that leaves nextVideo pointing at the promoted element.
PromoteNextVideoKeepsPending(g) ==
  [g EXCEPT !.currentVideo = g.nextVideo,
            !.currentIndex = g.sw.index,
            !.durationOf = g.elems[g.nextVideo].src + 1,
            !.isPlaying = ShouldPlay(g)]

\* the pending video becomes the current one; duration holds the duration
\* of the entry the current element belongs to (durationOf is that
\* entry's index plus one, 0 before any has been read);
PromoteNextVideo(g) ==
  [g EXCEPT !.currentVideo = g.nextVideo,
            !.nextVideo = 0,
            !.currentIndex = g.sw.index,
            !.durationOf = g.elems[g.nextVideo].src + 1,
            !.isPlaying = ShouldPlay(g)]

\* the listeners are attached, the switch ends and rendering goes on.
FinishSwitch(g) ==
  LET g1 == [SetupVideoEventListeners(g) EXCEPT
               !.status = "GL Transition complete!",
               !.isTransitioning = FALSE,
               !.elapsed = 0,
               !.sw = IdleSwitch]
  IN IF g.isPlaying THEN StartVideoRender(g1) ELSE RenderSingleFrame(g1)

CompleteSwitch(g) ==
  Then(Then(Then(g, RetireCurrentVideo), PromoteNextVideo), FinishSwitch)

\* Math.min(elapsed / duration, 1), as a numerator over duration.
ProgressAt(elapsed) == Min(elapsed, TransitionDuration)

\* The ramp's end test, passing on the first tick.
RampFinishedEarly(p) == p >= 0

RampFinished(p) == ~(p < TransitionDuration)

\* animateTransition without the reset of transitionProgress, and
\* animateTransition that forgets to request its next frame.
AnimateTransitionNoReset(g) ==
  LET p == ProgressAt(g.elapsed)
      g1 == [g EXCEPT !.transitionProgress = p]
  IN IF ~RampFinished(p) THEN RequestFrame(g1) ELSE CompleteSwitch(g1)

AnimateTransitionNoFrame(g) ==
  LET p == ProgressAt(g.elapsed)
      g1 == [g EXCEPT !.transitionProgress = p]
  IN IF ~RampFinished(p) THEN g1
     ELSE CompleteSwitch([g1 EXCEPT !.transitionProgress = 0])

\* One call of animateTransition; on the last one the promise resolves and
\* switchToVideo continues in the same task.
AnimateTransition(g) ==
  LET p == ProgressAt(g.elapsed)
      g1 == [g EXCEPT !.transitionProgress = p]
  IN IF ~RampFinished(p) THEN RequestFrame(g1)
     ELSE CompleteSwitch([g1 EXCEPT !.transitionProgress = 0])

\* performGLTransition up to its first requestAnimationFrame.  elapsed is
\* Date.now() - startTime.
PerformGLTransition(g) ==
  AnimateTransition(
    StartVideoRender([g EXCEPT !.transitionProgress = 0,
                               !.elapsed = 0,
                               !.sw.pc = "ramp"]))

\* switchToVideo after loadNextVideo has resolved.  allowed: whether the
\* platform lets the pending video play.
AfterLoadNextVideo(g, allowed) ==
  IF ShouldPlay(g) /\ g.nextVideo # 0
  THEN IF allowed
       THEN [ElPlay(g, g.nextVideo) EXCEPT !.sw.pc = "playing"]
       ELSE SwitchCatch(g)
  ELSE PerformGLTransition(g)

\* switchToVideo that assigns currentIndex before it loads, as switchToMedia
\* does.
SwitchToVideoEarlyIndex(g, index, autoPlay) ==
  IF ~SwitchToVideoGuard(g, index) THEN g
  ELSE
    LET cur == g.currentVideo
        g1 == [g EXCEPT !.isTransitioning = TRUE,
                        !.currentIndex = index,
                        !.sw = [pc |-> "loading", index |-> index,
                                autoPlay |-> autoPlay,
                                wasPlaying |-> g.isPlaying]]
        g2 == IF cur # 0 /\ g.isPlaying
              THEN [ElPause(g1, cur) EXCEPT !.isPlaying = FALSE]
              ELSE g1
    IN LoadNextVideo(
         [g2 EXCEPT !.status = "Loading next video for transition..."], index)

\* switchToVideo up to its first await.
SwitchToVideo(g, index, autoPlay) ==
  IF ~SwitchToVideoGuard(g, index) THEN g
  ELSE
    LET cur == g.currentVideo
        g1 == [g EXCEPT !.isTransitioning = TRUE,
                        !.sw = [pc |-> "loading", index |-> index,
                                autoPlay |-> autoPlay,
                                wasPlaying |-> g.isPlaying]]
        g2 == IF cur # 0 /\ g.isPlaying
              THEN [ElPause(g1, cur) EXCEPT !.isPlaying = FALSE]
              ELSE g1
    IN LoadNextVideo(
         [g2 EXCEPT !.status = "Loading next video for transition..."], index)

\* goToNextVideo without the wrap to index 0.
GoToNextVideoNoWrap(g, autoPlay) ==
  SwitchToVideo(g, g.currentIndex + 1, autoPlay)

GoToNextVideo(g, autoPlay) ==
  SwitchToVideo(g, (g.currentIndex + 1) % VideoCount, autoPlay)

\* goToPreviousVideo without the wrap to the last index.
GoToPreviousVideoNoWrap(g, autoPlay) ==
  SwitchToVideo(g, g.currentIndex - 1, autoPlay)

GoToPreviousVideo(g, autoPlay) ==
  SwitchToVideo(g, IF g.currentIndex = 0 THEN VideoCount - 1
                   ELSE g.currentIndex - 1, autoPlay)

\* togglePlay up to its await.  It runs in a click or keydown handler, so
\* the platform permits play(); play() on a video that failed to load is
\* rejected at once.
TogglePlay(g) ==
  LET cur == g.currentVideo IN
  IF cur = 0 THEN g
  ELSE IF g.isPlaying THEN ElPause(g, cur)
  ELSE IF g.elems[cur].ready # "error"
       THEN [ElPlay(g, cur) EXCEPT !.elems[cur].waitToggle = TRUE]
       ELSE [g EXCEPT !.status = "Playback error"]

(***************************************************************************)
(* GL variant: media events                                                *)
(***************************************************************************)
\* The 'play' listeners of element e.
OnPlay(g, e) ==
  IF g.elems[e].lst = "initial" \/ (g.elems[e].lst = "stored" /\ g.currentVideo # 0)
  THEN StartVideoRender([g EXCEPT !.isPlaying = TRUE])
  ELSE g

\* The 'pause' listeners of element e.
OnPause(g, e) ==
  IF g.elems[e].lst = "initial" \/ (g.elems[e].lst = "stored" /\ g.currentVideo # 0)
  THEN [g EXCEPT !.isPlaying = FALSE]
  ELSE g

\* The 'ended' listeners of element e.
OnEnded(g, e) ==
  IF g.elems[e].lst = "initial" THEN GoToNextVideo(g, TRUE)
  ELSE IF g.elems[e].lst = "stored" /\ g.currentVideo # 0 /\ ~g.isTransitioning
       THEN GoToNextVideo(g, TRUE)
  ELSE g

\* A rejected play() promise awaited by togglePlay: its catch.
RejectToggle(g, e) ==
  IF g.elems[e].doomedToggle
  THEN [g EXCEPT !.elems[e].doomedToggle = FALSE, !.status = "Playback error"]
  ELSE g

\* The task queued by pause(): 'pause' fires, then the play promises that
\* were pending at the pause() call are rejected.
PauseTask(g, e) == RejectToggle(OnPause(g, e), e)

DispatchEvent(g, e) ==
  LET ev == Head(g.elems[e].pend)
      g1 == [g EXCEPT !.elems[e].pend = Tail(@)]
  IN IF ev = "play" THEN OnPlay(g1, e) ELSE PauseTask(g1, e)

\* 'loadedmetadata' on e.
LoadedMetadata(g, e, allowed) ==
  LET g1 == [g EXCEPT !.elems[e].ready = "loaded"]
      g2 == IF g.elems[e].lst = "initial"
            THEN [g1 EXCEPT !.status = "Video loaded. Ready to play.",
                            !.durationOf =
                               IF g1.elems[g.currentVideo].ready = "loaded"
                               THEN g.elems[g.currentVideo].src + 1
                               ELSE 0]
            ELSE g1
  IN IF e = g.nextVideo /\ g.sw.pc = "loading"
     THEN AfterLoadNextVideo(g2, allowed)
     ELSE g2

\* 'error' on e while it loads; a play() promise pending on it is rejected.
LoadError(g, e) ==
  LET g1 == [g EXCEPT !.elems[e].ready = "error",
                      !.elems[e].doomedToggle = @ \/ g.elems[e].waitToggle,
                      !.elems[e].waitToggle = FALSE]
      g2 == RejectToggle(g1, e)
  IN IF e = g.nextVideo /\ g.sw.pc = "loading"
     THEN SwitchCatch(g2)
     ELSE g2

\* Playback of e has started: its pending play() promises resolve.
PlayStarted(g, e) ==
  LET g1 == IF g.elems[e].waitToggle
            THEN EnsureRendering([g EXCEPT !.elems[e].waitToggle = FALSE])
            ELSE g
  IN IF e = g.nextVideo /\ g.sw.pc = "playing"
     THEN PerformGLTransition(g1)
     ELSE g1

\* The playback position of e reaches the end: the element pauses itself,
\* 'pause' fires and then 'ended', in one task.
VideoEnded(g, e) ==
  LET g1 == IF g.elems[e].paused THEN g
            ELSE OnPause([g EXCEPT !.elems[e].paused = TRUE], e)
  IN OnEnded(g1, e)

(***************************************************************************)
(* Media variant: playlist, elements                                       *)
(***************************************************************************)
\* demoMediaUrls without the urls; duration 0 stands for an entry that
\* gives none.  Times of the image timer are in milliseconds.
demoMediaUrls ==
  <<[type |-> "video", duration |-> 0],
    [type |-> "image", duration |-> 5000],
    [type |-> "video", duration |-> 0],
    [type |-> "video", duration |-> 0]>>

MediaCount == Len(demoMediaUrls)

MediaItem(index) == demoMediaUrls[index + 1]

DefaultImageDuration == 5000

\* mediaItem.duration || 5
ImageDuration(index) ==
  IF MediaItem(index).duration # 0 THEN MediaItem(index).duration
  ELSE DefaultImageDuration

MediaRequestIndices == (0 - 1)..MediaCount

\* A media element of the Media variant.  Beyond the fields of a GL video:
\*   kind       "video" or "image";
\*   once       the { once: true } 'play' listener of loadVideo is armed;
\*   timer      the 100 ms auto-play timeout of loadVideo is pending;
\*   wait       the callers that await a play() promise of the element, in
\*              the order of their calls: "auto" is the timeout's callback,
\*              "toggle" is togglePlay;
\*   pend       the queued events: ev is "play" or "pause", and rej holds
\*              the callers whose promise the task of a pause() rejects;
\*   load       the loadCurrentMedia call that created the element still
\*              awaits it, with its argument autoPlay; fromSwitch tells
\*              whether switchToMedia awaits that call.
DeadMedia ==
  [alive |-> FALSE, kind |-> "video", attached |-> FALSE, paused |-> TRUE,
   src |-> 0, ready |-> "loading", lst |-> "none", once |-> FALSE,
   pend |-> <<>>, wait |-> <<>>, timer |-> FALSE,
   load |-> FALSE, autoPlay |-> FALSE, fromSwitch |-> FALSE]

NewMedia(index, autoPlay, fromSwitch) ==
  [DeadMedia EXCEPT !.alive = TRUE,
                    !.kind = MediaItem(index).type,
                    !.src = index,
                    !.once = (MediaItem(index).type = "video"),
                    !.timer = (MediaItem(index).type = "video" /\ autoPlay),
                    !.load = TRUE,
                    !.autoPlay = autoPlay,
                    !.fromSwitch = fromSwitch]

IsVideo(m, e) == e # 0 /\ m.elems[e].kind = "video"

IsImage(m, e) == e # 0 /\ m.elems[e].kind = "image"

\* No queued event of el reaches a listener of the player or rejects a
\* promise, and no later one can.
Effectless(el) ==
  /\ el.lst = "none"
  /\ \A i \in 1..Len(el.pend) :
       /\ el.pend[i].rej = <<>>
       /\ ~(el.once /\ el.pend[i].ev = "play")

\* An element that can no longer change the player: not current, not
\* playing, not awaited, no timeout and no promise pending on it, and either no
\* listener of the player that an event could still reach, or stored
\* listeners on an element that fires no further event.
MediaGarbage(m, e) ==
  LET el == m.elems[e] IN
  /\ el.alive
  /\ e # m.currentMedia
  /\ el.paused \/ el.ready = "error"
  /\ ~(el.load /\ el.ready = "loading")
  /\ ~el.timer
  /\ el.wait = <<>>
  /\ \/ Effectless(el)
     \/ el.lst = "stored" /\ el.paused /\ el.pend = <<>>

\* Queued events that reach no listener and reject no promise are dropped.
DropInertMedia(el) == IF Effectless(el) THEN [el EXCEPT !.pend = <<>>] ELSE el

\* The elements are renamed after every handler: the current one first.
MediaOrder(m) ==
  (IF m.currentMedia # 0 THEN <<m.currentMedia>> ELSE <<>>)
  \o SortedSeq({e \in ElemIds : /\ m.elems[e].alive
                                /\ ~MediaGarbage(m, e)
                                /\ e # m.currentMedia})

RenumberMedia(m, order) ==
  [m EXCEPT !.elems = [i \in ElemIds |->
                         IF i <= Len(order)
                         THEN DropInertMedia(m.elems[order[i]])
                         ELSE DeadMedia],
            !.currentMedia = PositionIn(order, @),
            !.storedOn = PositionIn(order, @)]

GcMedia(m) ==
  CHOOSE r \in {RenumberMedia(m, order) : order \in {MediaOrder(m)}} : TRUE

NewMediaId(m) ==
  IF {e \in ElemIds : ~m.elems[e].alive} = {} THEN 0
  ELSE CHOOSE e \in ElemIds :
         /\ ~m.elems[e].alive
         /\ \A f \in ElemIds : ~m.elems[f].alive => e <= f

\* The callers ws join the awaiting callers seq.  Two calls of togglePlay
\* in a row do what one does, so they are kept as one.
RECURSIVE Awaiting(_, _)
Awaiting(seq, ws) ==
  IF ws = <<>> THEN seq
  ELSE Awaiting(IF seq # <<>> /\ seq[Len(seq)] = Head(ws) THEN seq
                ELSE Append(seq, Head(ws)),
                Tail(ws))

\* HTMLMediaElement.pause() and play() on a playlist video.
MediaPause(m, e) ==
  IF m.elems[e].paused THEN m
  ELSE [m EXCEPT !.elems[e].paused = TRUE,
                 !.elems[e].pend =
                     Append(@, [ev |-> "pause", rej |-> m.elems[e].wait]),
                 !.elems[e].wait = <<>>]

\* Element e leaves the document (remove(), or innerHTML = '' on its
\* container): the platform pauses a media element that is taken out of the
\* document.
MediaDetach(m, e) ==
  IF m.elems[e].attached
  THEN [MediaPause(m, e) EXCEPT !.elems[e].attached = FALSE]
  ELSE m

MediaPlay(m, e) ==
  IF ~m.elems[e].paused THEN m
  ELSE [m EXCEPT !.elems[e].paused = FALSE,
                 !.elems[e].pend = Append(@, [ev |-> "play", rej |-> <<>>])]

(***************************************************************************)
(* Media variant: background music, blank video, image timer               *)
(***************************************************************************)
\* music and blank hold the paused flag of backgroundMusic and blankVideo
\* and whether their resource has finished loading (or failed).  allowed:
\* whether the platform lets a play() call made outside a user gesture go
\* ahead; a rejected play() is caught and only logged.
SyncMusicPlayback(m, allowed) ==
  IF m.isPlaying
  THEN (IF allowed THEN [m EXCEPT !.music.paused = FALSE] ELSE m)
  ELSE [m EXCEPT !.music.paused = TRUE]

PlayBlankVideo(m, allowed) ==
  IF m.blank.paused /\ allowed THEN [m EXCEPT !.blank.paused = FALSE] ELSE m

ControlBlankVideo(m, mediaType, allowed) ==
  IF mediaType = "image" THEN PlayBlankVideo(m, allowed) ELSE m

\* The image timer's frame callbacks: imageTimer is "null" or "set";
\* timerFrame is the pending callback whose id imageTimer holds;
\* timerOrphans counts pending callbacks whose id it no longer holds.
\* clearImageTimer that forgets cancelAnimationFrame.
ClearImageTimerNoCancel(m) ==
  IF m.imageTimer = "set"
  THEN [m EXCEPT !.imageTimer = "null"]
  ELSE m

ClearImageTimer(m) ==
  IF m.imageTimer = "set"
  THEN [m EXCEPT !.timerFrame = FALSE, !.imageTimer = "null"]
  ELSE m

\* this.imageTimer = requestAnimationFrame(updateTimer)
RequestTimer(m) ==
  [m EXCEPT !.timerOrphans = IF m.timerFrame THEN @ + 1 ELSE @,
            !.timerFrame = TRUE,
            !.imageTimer = "set"]

StartImageTimer(m) == RequestTimer(ClearImageTimer(m))

\* imgElapsed is Date.now() - imageStartTime.
StartImageDisplay(m, allowed) ==
  SyncMusicPlayback(
    StartImageTimer([m EXCEPT !.isPlaying = TRUE, !.imgElapsed = 0]),
    allowed)

(***************************************************************************)
(* Media variant: listeners                                                *)
(***************************************************************************)
RemoveMediaEventListeners(m) ==
  IF m.currentMedia # 0 /\ m.storedOn # 0
  THEN [m EXCEPT !.elems[m.currentMedia].lst =
                     IF m.storedOn = m.currentMedia THEN "none" ELSE @,
                 !.storedOn = 0]
  ELSE m

SetupMediaEventListeners(m) ==
  IF m.currentMedia = 0 THEN m
  ELSE [RemoveMediaEventListeners(m) EXCEPT
          !.elems[m.currentMedia].lst = "stored",
          !.storedOn = m.currentMedia]

\* videoContainer.innerHTML = ''; videoContainer.appendChild(currentMedia)
\* The container holds at most one element.
DisplayCurrentMedia(m) ==
  LET others == {e \in ElemIds : /\ e # m.currentMedia
                                 /\ m.elems[e].alive
                                 /\ m.elems[e].attached}
      m1 == IF others = {} THEN m
            ELSE MediaDetach(m, CHOOSE e \in others : TRUE)
  IN IF m.currentMedia = 0 THEN m
     ELSE [m1 EXCEPT !.elems[m.currentMedia].attached = TRUE]

(***************************************************************************)
(* Media variant: loading and switching                                    *)
(***************************************************************************)
\* loadCurrentMedia up to its await, with loadVideo or loadImage up to the
\* point where the new element waits for its resource.
LoadCurrentMedia(m, autoPlay, fromSwitch) ==
  LET cur == m.currentMedia
      m1 == [m EXCEPT !.status = "Loading media...", !.sought = 0 - 1]
      m2 == IF cur # 0
            THEN [MediaDetach(
                    ClearImageTimer(RemoveMediaEventListeners(m1)), cur)
                  EXCEPT !.currentMedia = 0]
            ELSE m1
      m3 == GcMedia(m2)
      id == NewMediaId(m3)
  IN IF id = 0 THEN [m EXCEPT !.oom = TRUE]
     ELSE [m3 EXCEPT !.elems[id] =
             NewMedia(m.currentIndex, autoPlay, fromSwitch)]

\* switchToMedia's guard without the test against currentIndex.
SwitchToMediaGuardAnyIndex(m, index) ==
  /\ index >= 0
  /\ index < MediaCount

SwitchToMediaGuard(m, index) ==
  /\ index >= 0
  /\ index < MediaCount
  /\ index # m.currentIndex

\* switchToMedia up to its await.  switches counts the accepted calls; the
\* program keeps no such count.
SwitchToMedia(m, index, autoPlay) ==
  IF ~SwitchToMediaGuard(m, index) THEN m
  ELSE
    LET cur == m.currentMedia
        m1 == [m EXCEPT !.status = "Loading media..."]
        m2 == IF cur # 0 /\ m.isPlaying
              THEN [(IF IsVideo(m, cur) THEN MediaPause(m1, cur)
                     ELSE ClearImageTimer(m1)) EXCEPT !.isPlaying = FALSE]
              ELSE m1
    IN LoadCurrentMedia([m2 EXCEPT !.currentIndex = index,
                                   !.switches = @ + 1], autoPlay, TRUE)

GoToNextMedia(m, autoPlay) ==
  SwitchToMedia(m, (m.currentIndex + 1) % MediaCount, autoPlay)

GoToPreviousMedia(m, autoPlay) ==
  SwitchToMedia(m, IF m.currentIndex = 0 THEN MediaCount - 1
                   ELSE m.currentIndex - 1, autoPlay)

\* loadCurrentMedia after its await, and then switchToMedia after its own
\* when it is the caller.  Of adjustMusicVolume the player state keeps the
\* kind whose volume the latest call ramps to (musicTarget); the ramp
\* itself writes backgroundMusic.volume only, which no handler of the
\* player reads: it is the volume machine further down.
AfterLoadCurrentMedia(m, e, allowed) ==
  LET el == m.elems[e]
      m1 == ControlBlankVideo(
              [SetupMediaEventListeners(m) EXCEPT
                 !.musicTarget = MediaItem(el.src).type],
              MediaItem(el.src).type, allowed)
      m2 == IF el.autoPlay THEN SyncMusicPlayback(m1, allowed) ELSE m1
      m3 == [m2 EXCEPT !.elems[e].load = FALSE]
  IN IF el.fromSwitch
     THEN [m3 EXCEPT !.status = "Media switched successfully!"]
     ELSE m3

\* The 'loadedmetadata' listener of loadVideo.  duration holds the
\* duration of the entry the loaded element belongs to: durationOf is that
\* entry's index plus one.
VideoLoadedMetadata(m, e) ==
  DisplayCurrentMedia(
    [m EXCEPT !.elems[e].ready = "loaded",
              !.durationOf = m.elems[e].src + 1,
              !.currentMedia = e,
              !.sought = 0 - 1,
              !.status = "Video loaded. Ready to play."])

\* The 'load' listener of loadImage.
ImageLoaded(m, e, allowed) ==
  LET m1 == DisplayCurrentMedia(
              [m EXCEPT !.elems[e].ready = "loaded",
                        !.durationOf = m.elems[e].src + 1,
                        !.currentTime = 0,
                        !.currentMedia = e,
                        !.sought = 0 - 1,
                        !.status = "Image loaded. Ready to display."])
  IN IF m.elems[e].autoPlay THEN StartImageDisplay(m1, allowed) ELSE m1

\* The resource of e has loaded.
MediaLoaded(m, e, allowed) ==
  LET m1 == IF IsVideo(m, e) THEN VideoLoadedMetadata(m, e)
            ELSE ImageLoaded(m, e, allowed)
  IN IF m.elems[e].load THEN AfterLoadCurrentMedia(m1, e, allowed) ELSE m1

\* A rejected play() promise: the catch of its caller.
RECURSIVE RejectPlay(_, _)
RejectPlay(m, ws) ==
  IF ws = <<>> THEN m
  ELSE RejectPlay(
         [m EXCEPT !.status =
            IF Head(ws) = "auto"
            THEN "Click play to continue - auto-play blocked by browser"
            ELSE "Playback error"],
         Tail(ws))

\* The resource of e has failed to load.  loadImage rejects, which
\* loadCurrentMedia catches, after which switchToMedia goes on; loadVideo
\* has no 'error' listener, so that its promise stays pending.
MediaLoadError(m, e) ==
  LET el == m.elems[e]
      m1 == [m EXCEPT !.elems[e].ready = "error"]
  IN IF el.kind = "image"
     THEN LET m2 == [m1 EXCEPT !.elems[e].load = FALSE,
                               !.status = "Error loading media"]
          IN IF el.load /\ el.fromSwitch
             THEN [m2 EXCEPT !.status = "Media switched successfully!"]
             ELSE m2
     ELSE RejectPlay([m1 EXCEPT !.elems[e].wait = <<>>], el.wait)

\* The callback of loadVideo's setTimeout(..., 100) up to its await.
AutoPlayTimeout(m, e, allowed) ==
  LET m1 == [m EXCEPT !.elems[e].timer = FALSE] IN
  IF m.elems[e].ready = "error" \/ ~allowed
  THEN RejectPlay(m1, <<"auto">>)
  ELSE [MediaPlay(m1, e) EXCEPT
          !.elems[e].wait = Awaiting(@, <<"auto">>)]

(***************************************************************************)
(* Media variant: controls                                                 *)
(***************************************************************************)
\* The end of togglePlay: the blank video follows an image's play state,
\* and the music follows isPlaying.
TogglePlayTail(m, allowed) ==
  LET m1 == IF IsImage(m, m.currentMedia)
            THEN (IF m.isPlaying THEN PlayBlankVideo(m, allowed)
                  ELSE [m EXCEPT !.blank.paused = TRUE])
            ELSE m
  IN SyncMusicPlayback(m1, allowed)

\* togglePlay up to its await or, where it does not await, to its end.
\* It runs in a click or keydown handler, where the platform permits
\* play().
TogglePlayMedia(m) ==
  LET cur == m.currentMedia IN
  IF cur = 0 THEN m
  ELSE IF m.isPlaying
       THEN IF IsVideo(m, cur) THEN TogglePlayTail(MediaPause(m, cur), TRUE)
            ELSE TogglePlayTail(
                   ClearImageTimer([m EXCEPT !.isPlaying = FALSE]), TRUE)
       ELSE IF IsVideo(m, cur)
            THEN [MediaPlay(m, cur) EXCEPT
                    !.elems[cur].wait = Awaiting(@, <<"toggle">>)]
            ELSE TogglePlayTail(StartImageDisplay(m, TRUE), TRUE)

\* A play() promise of e resolves: its callers continue.
RECURSIVE ResolvePlay(_, _, _)
ResolvePlay(m, ws, allowed) ==
  IF ws = <<>> THEN m
  ELSE ResolvePlay(
         IF Head(ws) = "auto"
         THEN [m EXCEPT !.isPlaying = TRUE,
                        !.status = "Auto-playing video..."]
         ELSE TogglePlayTail([m EXCEPT !.isPlaying = TRUE], allowed),
         Tail(ws), allowed)

MediaPlayStarted(m, e, allowed) ==
  ResolvePlay([m EXCEPT !.elems[e].wait = <<>>], m.elems[e].wait, allowed)

\* The duration the image timer and seek read.
Duration(m) == IF m.durationOf = 0 THEN 0 ELSE ImageDuration(m.durationOf - 1)

\* seek(time) for an image; for a video it sets the element's own clock.
\* sought records the time of the latest seek on the current item (-1:
\* none); the program keeps no such field.
Seek(m, time) ==
  IF IsImage(m, m.currentMedia)
  THEN [m EXCEPT !.currentTime = Min(time, Duration(m)),
                 !.imgElapsed = Min(time, Duration(m)),
                 !.sought = Min(time, Duration(m))]
  ELSE m

\* updateTimer without Math.min.
UpdateTimerNoClamp(m) ==
  IF m.isPlaying /\ IsImage(m, m.currentMedia)
  THEN LET t == m.imgElapsed
           m1 == [m EXCEPT !.currentTime = t]
       IN IF t >= Duration(m) THEN GoToNextMedia(m1, TRUE)
          ELSE RequestTimer(m1)
  ELSE m

\* The frame callback of startImageTimer.
UpdateTimer(m) ==
  IF m.isPlaying /\ IsImage(m, m.currentMedia)
  THEN LET t == Min(m.imgElapsed, Duration(m))
           m1 == [m EXCEPT !.currentTime = t]
       IN IF t >= Duration(m) THEN GoToNextMedia(m1, TRUE)
          ELSE RequestTimer(m1)
  ELSE m

(***************************************************************************)
(* Media variant: media events                                             *)
(***************************************************************************)
Listening(m, e) == m.elems[e].lst = "stored" /\ m.currentMedia # 0

\* 'play' on e: the one-shot listener of loadVideo, then playListener.
OnPlayMedia(m, e, allowed) ==
  LET m1 == IF m.elems[e].once
            THEN [m EXCEPT !.blank.paused = TRUE, !.elems[e].once = FALSE]
            ELSE m
  IN IF Listening(m, e)
     THEN SyncMusicPlayback([m1 EXCEPT !.isPlaying = TRUE], allowed)
     ELSE m1

OnPauseMedia(m, e) ==
  IF Listening(m, e)
  THEN SyncMusicPlayback([m EXCEPT !.isPlaying = FALSE], FALSE)
  ELSE m

OnEndedMedia(m, e) ==
  IF Listening(m, e) THEN GoToNextMedia(m, TRUE) ELSE m

\* The task queued by pause(): 'pause' fires, then the play() promises
\* pending at the pause() call are rejected.
PauseTaskMedia(m, e, rej) == RejectPlay(OnPauseMedia(m, e), rej)

DispatchMediaEvent(m, e, allowed) ==
  LET event == Head(m.elems[e].pend)
      m1 == [m EXCEPT !.elems[e].pend = Tail(@)]
  IN IF event.ev = "play" THEN OnPlayMedia(m1, e, allowed)
     ELSE PauseTaskMedia(m1, e, event.rej)

\* The playback position of video e reaches its end.
MediaEnded(m, e) ==
  LET m1 == IF m.elems[e].paused THEN m
            ELSE OnPauseMedia([m EXCEPT !.elems[e].paused = TRUE], e)
  IN OnEndedMedia(m1, e)


(***************************************************************************)
(* Media variant: the music volume                                         *)
(***************************************************************************)
\* musicVolumes, in units of 1/640: 0.1 and 0.9.
musicVolumes == [video |-> 64, image |-> 576]

\* easeProgress of animateVolume in eighths, for progress
\* min(elapsed / duration, 1).
Ease8(elapsed) ==
  LET e == Min(elapsed, VolumeRampDuration)
      d == VolumeRampDuration
  IN IF 2 * e < d THEN (16 * e * e) \div (d * d)
     ELSE 8 - (4 * (2 * d - 2 * e) * (2 * d - 2 * e)) \div (d * d)

\* startVolume + (targetVolume - startVolume) * easeProgress
VolumeAt(r) == r.start + ((r.target - r.start) * Ease8(r.elapsed)) \div 8

RampDone(r) == ~(r.elapsed < VolumeRampDuration)

\* adjustMusicVolume(mediaType): the ramp is created and animateVolume
\* runs once, at elapsed 0, and requests its frame.
AdjustMusicVolume(v, mediaType) ==
  LET r == [start |-> v.volume, target |-> musicVolumes[mediaType],
            elapsed |-> 0]
  IN [v EXCEPT !.volume = VolumeAt(r),
               !.pending = Append(@, r),
               !.adjusts = @ + 1]

\* One callback of a frame: animateVolume of the oldest ramp that has not
\* run in this frame.  The frame ends with the last pending callback.
AnimateVolume(v) ==
  LET r == Head(v.pending)
      nxt == IF RampDone(r) THEN v.next ELSE Append(v.next, r)
      v1 == [v EXCEPT !.volume = VolumeAt(r)]
  IN IF Tail(v.pending) = <<>>
     THEN [v1 EXCEPT !.pending = nxt, !.next = <<>>, !.inFrame = FALSE,
                     !.shown = v1.volume]
     ELSE [v1 EXCEPT !.pending = Tail(@), !.next = nxt, !.inFrame = TRUE]

\* Date.now() advances by dt for every ramp.
VolumeClock(v, dt) ==
  [v EXCEPT !.pending =
     [i \in 1..Len(v.pending) |->
        [v.pending[i] EXCEPT !.elapsed = Min(@ + dt, VolumeRampDuration)]]]

(***************************************************************************)
(* GLTransitionRenderer: the two textures                                  *)
(***************************************************************************)
\* A video handed to the renderer: which element it is, its readyState
\* (0 HAVE_NOTHING .. 4 HAVE_ENOUGH_DATA) and its videoWidth.
MaxVideos == 2
HaveCurrentData == 2
VideoInputs ==
  [id : 1..MaxVideos, readyState : 0..4, videoWidth : {0, 640}]

\* The test of updateFromTexture and updateToTexture.
Decodable(video) ==
  video.readyState >= HaveCurrentData /\ video.videoWidth > 0

\* What gl.texImage2D stores for a video: its current frame, named by the
\* element, or nothing usable when the element has no frame to give.
NoImage == 0
Unusable == 0 - 1
TexImage2D(video) ==
  IF Decodable(video) THEN video.id ELSE Unusable

\* The renderer: the content of fromTexture and toTexture (NoImage after
\* setupTextures), the pair of contents the last render call has drawn
\* (<<>> before the first), and, not a field of the program, the last call
\* made.
RDInit ==
  [fromTexture |-> NoImage, toTexture |-> NoImage, shown |-> <<>>,
   last |-> [op |-> "constructor", video |-> 0]]

\* updateFromTexture that uploads whatever it is given.
UpdateFromTextureUnguarded(r, video) ==
  [r EXCEPT !.fromTexture = TexImage2D(video),
            !.last = [op |-> "updateFromTexture", video |-> video]]

UpdateFromTexture(r, video) ==
  LET r1 == [r EXCEPT !.last = [op |-> "updateFromTexture",
                                video |-> video]]
  IN IF Decodable(video)
     THEN [r1 EXCEPT !.fromTexture = TexImage2D(video)]
     ELSE r1

UpdateToTexture(r, video) ==
  LET r1 == [r EXCEPT !.last = [op |-> "updateToTexture",
                                video |-> video]]
  IN IF Decodable(video)
     THEN [r1 EXCEPT !.toTexture = TexImage2D(video)]
     ELSE r1

\* render binds the two textures and draws.
Render(r, progress) ==
  [r EXCEPT !.shown = <<r.fromTexture, r.toTexture>>,
            !.last = [op |-> "render", video |-> 0]]

(***************************************************************************)
(* Media variant: mute                                                     *)
(***************************************************************************)
\* The part of the Media variant that the muted flags depend on: isMuted,
\* backgroundMusic.muted, currentIndex, currentMedia and the media
\* elements with their muted flag.  An element is "loading" until its
\* 'loadedmetadata' or 'load' listener runs.
MaxMuteElems == 2
MuteIds == 1..MaxMuteElems

NoMuteElem ==
  [alive |-> FALSE, kind |-> "video", src |-> 0, muted |-> FALSE,
   ready |-> "loading"]

\* loadVideo: video.muted = this.isMuted; an image has no muted flag (it
\* is kept FALSE).
NewMuteElem(u, index) ==
  [alive |-> TRUE, kind |-> MediaItem(index).type, src |-> index,
   muted |-> (MediaItem(index).type = "video" /\ u.isMuted),
   ready |-> "loading"]

\* isMuted = true, setupBackgroundMusic and loadCurrentMedia(false).
MuteInit ==
  LET u == [isMuted |-> TRUE, musicMuted |-> TRUE, currentIndex |-> 0,
            currentMedia |-> 0,
            elems |-> [e \in MuteIds |-> NoMuteElem]]
  IN [u EXCEPT !.elems[1] = NewMuteElem(u, 0)]

\* toggleMute
ToggleMute(u) ==
  LET u1 == [u EXCEPT !.isMuted = ~u.isMuted, !.musicMuted = ~u.isMuted]
      cur == u.currentMedia
  IN IF cur # 0 /\ u.elems[cur].kind = "video"
     THEN [u1 EXCEPT !.elems[cur].muted = u1.isMuted]
     ELSE u1

\* switchToMedia and loadCurrentMedia up to the await: the current element
\* is removed and a new one is created.  An element that was removed, or
\* whose resource has failed, is kept no longer.
FreeMuteId(u) ==
  IF \A e \in MuteIds : u.elems[e].alive THEN 0
  ELSE CHOOSE e \in MuteIds :
         /\ ~u.elems[e].alive
         /\ \A f \in MuteIds : ~u.elems[f].alive => e <= f

MuteSwitchToMedia(u, index) ==
  IF ~(index >= 0 /\ index < MediaCount /\ index # u.currentIndex) THEN u
  ELSE
    LET cur == u.currentMedia
        u1 == IF cur # 0
              THEN [u EXCEPT !.elems[cur] = NoMuteElem, !.currentMedia = 0]
              ELSE u
        u2 == [u1 EXCEPT !.currentIndex = index]
    IN [u2 EXCEPT !.elems[FreeMuteId(u1)] = NewMuteElem(u2, index)]

\* The 'loadedmetadata' or 'load' listener of e: this.currentMedia = e.
\* The element shown before leaves the document.
MuteMediaLoaded(u, e) ==
  LET cur == u.currentMedia
      u1 == IF cur # 0 /\ cur # e
            THEN [u EXCEPT !.elems[cur] = NoMuteElem]
            ELSE u
  IN [u1 EXCEPT !.elems[e].ready = "loaded", !.currentMedia = e]

\* The resource of e fails: no listener of the player changes a field.
MuteLoadError(u, e) == [u EXCEPT !.elems[e] = NoMuteElem]

(***************************************************************************)
(* State after construction                                                *)
(***************************************************************************)
\* new MediabunnyPlayer(container): setupUI, setupEventListeners and
\* loadCurrentVideo(false), which creates the first video element.
GLInit ==
  [currentIndex |-> 0, isPlaying |-> FALSE, currentVideo |-> 1,
   nextVideo |-> 0, isTransitioning |-> FALSE, transitionProgress |-> 0,
   animationId |-> "null", renderFrame |-> "none", orphans |-> NoOrphans,
   rampFrame |-> FALSE, storedOn |-> 0,
   status |-> "Loading video...",
   elems |-> [e \in ElemIds |->
                IF e = 1 THEN NewVideo(0, "initial") ELSE DeadElem],
   sw |-> IdleSwitch, elapsed |-> 0, oom |-> FALSE, touched |-> FALSE,
   drawn |-> {},
   durationOf |-> 0]

\* A constructor that loads entry 0 with loadCurrentMedia(true).
MDInitAutoPlay ==
  [currentIndex |-> 0, isPlaying |-> FALSE, currentTime |-> 0,
   durationOf |-> 0, currentMedia |-> 0, storedOn |-> 0,
   imageTimer |-> "null", timerFrame |-> FALSE, timerOrphans |-> 0,
   imgElapsed |-> 0, sought |-> 0 - 1,
   music |-> [paused |-> TRUE, settled |-> FALSE], musicTarget |-> "video",
   blank |-> [paused |-> TRUE, settled |-> FALSE],
   status |-> "Loading media...",
   elems |-> [e \in ElemIds |->
                IF e = 1 THEN NewMedia(0, TRUE, FALSE) ELSE DeadMedia],
   switches |-> 0, oom |-> FALSE, touched |-> FALSE]

\* new MediabunnyPlayer(container) of the Media variant: setupUI,
\* setupEventListeners, setupBackgroundMusic, setupBlankVideo and
\* loadCurrentMedia(false), which creates the element of entry 0.
MDInit ==
  [currentIndex |-> 0, isPlaying |-> FALSE, currentTime |-> 0,
   durationOf |-> 0, currentMedia |-> 0, storedOn |-> 0,
   imageTimer |-> "null", timerFrame |-> FALSE, timerOrphans |-> 0,
   imgElapsed |-> 0, sought |-> 0 - 1,
   music |-> [paused |-> TRUE, settled |-> FALSE], musicTarget |-> "video",
   blank |-> [paused |-> TRUE, settled |-> FALSE],
   status |-> "Loading media...",
   elems |-> [e \in ElemIds |->
                IF e = 1 THEN NewMedia(0, FALSE, FALSE) ELSE DeadMedia],
   switches |-> 0, oom |-> FALSE, touched |-> FALSE]

\* setupBackgroundMusic: the music starts at the volume for videos, with no
\* ramp under way.  pending holds the ramps whose animateVolume callback
\* waits for its frame, oldest first; while a frame runs its callbacks
\* (inFrame), next holds the ramps that have run and asked for the frame
\* after.  shown is the volume at the end of the latest frame; adjusts
\* counts the calls of adjustMusicVolume.
VLInit ==
  [volume |-> musicVolumes.video, shown |-> musicVolumes.video,
   pending |-> <<>>, next |-> <<>>, inFrame |-> FALSE, adjusts |-> 0]

Init ==
  /\ variant \in {"gl", "media", "volume", "renderer", "mute"}
  /\ mt = MuteInit
  /\ gl = GLInit
  /\ md = MDInit
  /\ vl = VLInit
  /\ rd = RDInit

(***************************************************************************)
(* GL variant: actions                                                     *)
(***************************************************************************)
\* touched records that a click, a key or a call from outside has reached
\* the player since construction; the program keeps no such field.
UserInput(s) == [s EXCEPT !.touched = TRUE]

\* The model's bounds: the element pool and the event queues.  A render
\* callback is requested only by startVideoRender, which cancels the
\* pending one first, or by the callback that has just run: none is ever
\* pending that animationId does not name.
GLBounded(g) ==
  /\ ~g.oom
  /\ \A e \in ElemIds : Len(g.elems[e].pend) <= MaxPend
  /\ g.orphans = NoOrphans

\* One step of the GL variant: handler result h becomes the next state.
GLStep(h) ==
  /\ variant = "gl"
  /\ GLBounded(h)
  /\ gl' = Gc(h)
  /\ UNCHANGED <<variant, md, vl, rd, mt>>

\* A call of switchToVideo(index, autoPlay).
GLSwitchToVideo ==
  \E index \in RequestIndices, autoPlay \in BOOLEAN :
    \E h \in {UserInput(SwitchToVideo(gl, index, autoPlay))} :
      GLStep(h)

\* A click on playlist item index.
GLPlaylistClick ==
  \E index \in 0..(VideoCount - 1) :
    /\ index # gl.currentIndex
    /\ \E h \in {UserInput(SwitchToVideo(gl, index, TRUE))} :
         GLStep(h)

GLArrowUp ==
  \E h \in {UserInput(GoToPreviousVideo(gl, FALSE))} :
    GLStep(h)

GLArrowDown ==
  \E h \in {UserInput(GoToNextVideo(gl, FALSE))} :
    GLStep(h)

GLTogglePlay ==
  \E h \in {UserInput(TogglePlay(gl))} : GLStep(h)

GLDispatchEvent ==
  \E e \in ElemIds :
    /\ gl.elems[e].alive
    /\ gl.elems[e].pend # <<>>
    /\ \E h \in {DispatchEvent(gl, e)} : GLStep(h)

GLLoadedMetadata ==
  \E e \in ElemIds, allowed \in BOOLEAN :
    /\ gl.elems[e].alive
    /\ gl.elems[e].ready = "loading"
    /\ \E h \in {LoadedMetadata(gl, e, allowed)} :
         GLStep(h)

GLLoadError ==
  \E e \in ElemIds :
    /\ gl.elems[e].alive
    /\ gl.elems[e].ready = "loading"
    /\ \E h \in {LoadError(gl, e)} : GLStep(h)

GLPlayStarted ==
  \E e \in ElemIds :
    /\ gl.elems[e].alive
    /\ gl.elems[e].ready = "loaded"
    /\ ~gl.elems[e].paused
    /\ gl.elems[e].pend = <<>>
    /\ gl.elems[e].waitToggle \/ (e = gl.nextVideo /\ gl.sw.pc = "playing")
    /\ \E h \in {PlayStarted(gl, e)} : GLStep(h)

\* Playback reaches the end of e, or the user seeks the current video to
\* its end.
GLVideoEnded ==
  \E e \in ElemIds :
    /\ gl.elems[e].alive
    /\ gl.elems[e].ready = "loaded"
    /\ gl.elems[e].pend = <<>>
    /\ ~gl.elems[e].waitToggle
    /\ ~(e = gl.nextVideo /\ gl.sw.pc = "playing")
    /\ ~gl.elems[e].paused \/ e = gl.currentVideo
    /\ \E h \in {IF gl.elems[e].paused
                   THEN UserInput(VideoEnded(gl, e))
                   ELSE VideoEnded(gl, e)} :
         GLStep(h)

\* The pending frame callback of the render loop runs.
GLRenderCallback ==
  /\ gl.renderFrame # "none"
  /\ \E h \in {IF gl.renderFrame = "render"
                THEN RenderFrame([gl EXCEPT !.renderFrame = "none"])
                ELSE RenderSingleFrame([gl EXCEPT !.renderFrame = "none"])} :
       GLStep(h)

\* The frame callback of performGLTransition runs.
GLRampTick ==
  /\ gl.rampFrame
  /\ \E h \in {AnimateTransition([gl EXCEPT !.rampFrame = FALSE])} :
       GLStep(h)

\* Wall-clock time passes during the ramp.
GLTimePasses ==
  /\ gl.sw.pc = "ramp"
  /\ gl.elapsed < TransitionDuration
  /\ \E k \in 1..MaxSkip :
       GLStep([gl EXCEPT !.elapsed = @ + k * TimeUnit])

NextGL ==
  \/ GLSwitchToVideo
  \/ GLPlaylistClick
  \/ GLArrowUp
  \/ GLArrowDown
  \/ GLTogglePlay
  \/ GLDispatchEvent
  \/ GLLoadedMetadata
  \/ GLLoadError
  \/ GLPlayStarted
  \/ GLVideoEnded
  \/ GLRenderCallback
  \/ GLRampTick
  \/ GLTimePasses

(***************************************************************************)
(* Media variant: actions                                                  *)
(***************************************************************************)
\* The loads that a switchToMedia call awaits.
LoadsInFlight(m) ==
  {e \in ElemIds : /\ m.elems[e].alive
                   /\ m.elems[e].load
                   /\ m.elems[e].fromSwitch
                   /\ m.elems[e].ready = "loading"}

MDBounded(m) ==
  /\ ~m.oom
  /\ \A e \in ElemIds : /\ Len(m.elems[e].pend) <= MaxPend
                        /\ Len(m.elems[e].wait) <= MaxPend
  /\ m.timerOrphans <= MaxOrphans
  /\ m.switches <= MaxSwitches

\* One step of the Media variant.
MDStep(h) ==
  /\ variant = "media"
  /\ MDBounded(h)
  /\ md' = GcMedia(h)
  /\ UNCHANGED <<variant, gl, vl, rd, mt>>

\* A call of switchToMedia(index, autoPlay).
MDSwitchToMedia ==
  \E index \in MediaRequestIndices, autoPlay \in BOOLEAN :
    \E h \in {UserInput(SwitchToMedia(md, index, autoPlay))} :
      MDStep(h)

MDPlaylistClick ==
  \E index \in 0..(MediaCount - 1) :
    /\ index # md.currentIndex
    /\ \E h \in {UserInput(SwitchToMedia(md, index, TRUE))} :
         MDStep(h)

MDArrowUp ==
  \E h \in {UserInput(GoToPreviousMedia(md, FALSE))} :
    MDStep(h)

MDArrowDown ==
  \E h \in {UserInput(GoToNextMedia(md, FALSE))} :
    MDStep(h)

MDTogglePlay ==
  \E h \in {UserInput(TogglePlayMedia(md))} : MDStep(h)

\* The progress bar, ArrowLeft (time 0 for an image) or ArrowRight (its
\* duration).
MDSeek ==
  \E time \in SeekTimes :
    /\ IsImage(md, md.currentMedia)
    /\ \E h \in {UserInput(Seek(md, time))} : MDStep(h)

MDMediaLoaded ==
  \E e \in ElemIds, allowed \in BOOLEAN :
    /\ md.elems[e].alive
    /\ md.elems[e].ready = "loading"
    /\ \E h \in {MediaLoaded(md, e, allowed)} :
         MDStep(h)

MDMediaLoadError ==
  \E e \in ElemIds :
    /\ md.elems[e].alive
    /\ md.elems[e].ready = "loading"
    /\ \E h \in {MediaLoadError(md, e)} :
         MDStep(h)

MDAutoPlayTimeout ==
  \E e \in ElemIds, allowed \in BOOLEAN :
    /\ md.elems[e].alive
    /\ md.elems[e].timer
    /\ \E h \in {AutoPlayTimeout(md, e, allowed)} :
         MDStep(h)

MDPlayStarted ==
  \E e \in ElemIds, allowed \in BOOLEAN :
    /\ md.elems[e].alive
    /\ md.elems[e].ready = "loaded"
    /\ ~md.elems[e].paused
    /\ md.elems[e].pend = <<>>
    /\ md.elems[e].wait # <<>>
    /\ \E h \in {MediaPlayStarted(md, e, allowed)} : MDStep(h)

MDDispatchEvent ==
  \E e \in ElemIds, allowed \in BOOLEAN :
    /\ md.elems[e].alive
    /\ md.elems[e].pend # <<>>
    /\ \E h \in {DispatchMediaEvent(md, e, allowed)} : MDStep(h)

\* Playback of video e reaches the end, or the user seeks the current
\* video to its end.
MDMediaEnded ==
  \E e \in ElemIds :
    /\ md.elems[e].alive
    /\ md.elems[e].kind = "video"
    /\ md.elems[e].ready = "loaded"
    /\ md.elems[e].pend = <<>>
    /\ md.elems[e].wait = <<>>
    /\ ~md.elems[e].paused \/ e = md.currentMedia
    /\ \E h \in {IF md.elems[e].paused
                   THEN UserInput(MediaEnded(md, e))
                   ELSE MediaEnded(md, e)} :
         MDStep(h)

\* A frame callback of the image timer runs: the one imageTimer names or
\* one it no longer names.
MDImageTimerCallback ==
  \E m \in (IF md.timerFrame
            THEN {[md EXCEPT !.timerFrame = FALSE]} ELSE {})
           \cup (IF md.timerOrphans > 0
                 THEN {[md EXCEPT !.timerOrphans = @ - 1]} ELSE {}) :
    \E h \in {UpdateTimer(m)} :
      MDStep(h)

\* Wall-clock time passes while an image is the current item.
MDTimePasses ==
  /\ IsImage(md, md.currentMedia)
  /\ md.imgElapsed < Duration(md)
  /\ \E k \in 1..MaxSkip :
       MDStep([md EXCEPT !.imgElapsed = @ + k * ImageTimeUnit])

\* 'loadeddata' or 'error' of the background music.
MDMusicSettled ==
  /\ ~md.music.settled
  /\ \E ok \in BOOLEAN :
       MDStep([md EXCEPT !.music.settled = TRUE,
                         !.status = IF ok THEN "Background music loaded"
                                    ELSE "Background music unavailable"])

\* 'loadeddata' or 'error' of the blank video; on 'loadeddata' it is
\* started.
MDBlankSettled ==
  /\ ~md.blank.settled
  /\ \E ok \in BOOLEAN, allowed \in BOOLEAN :
       MDStep(IF ok THEN PlayBlankVideo([md EXCEPT !.blank.settled = TRUE],
                                        allowed)
              ELSE [md EXCEPT !.blank.settled = TRUE])

NextMedia ==
  \/ MDSwitchToMedia
  \/ MDPlaylistClick
  \/ MDArrowUp
  \/ MDArrowDown
  \/ MDTogglePlay
  \/ MDSeek
  \/ MDMediaLoaded
  \/ MDMediaLoadError
  \/ MDAutoPlayTimeout
  \/ MDPlayStarted
  \/ MDDispatchEvent
  \/ MDMediaEnded
  \/ MDImageTimerCallback
  \/ MDTimePasses
  \/ MDMusicSettled
  \/ MDBlankSettled

(***************************************************************************)
(* Media variant: actions of the music volume                              *)
(***************************************************************************)
VLStep(h) ==
  /\ variant = "volume"
  /\ h.adjusts <= MaxAdjusts
  /\ vl' = h
  /\ UNCHANGED <<variant, gl, md, rd, mt>>

\* loadCurrentMedia calls adjustMusicVolume after a load, between frames.
VLAdjustMusicVolume ==
  \E mediaType \in {"video", "image"} :
    /\ ~vl.inFrame
    /\ VLStep(AdjustMusicVolume(vl, mediaType))

\* The browser runs the next callback of an animation frame.
VLAnimateVolume ==
  /\ vl.pending # <<>>
  /\ VLStep(AnimateVolume(vl))

\* Wall-clock time passes between two frames.
VLTimePasses ==
  /\ ~vl.inFrame
  /\ \E i \in 1..Len(vl.pending) : ~RampDone(vl.pending[i])
  /\ \E k \in 1..MaxSkip : VLStep(VolumeClock(vl, k * VolTimeUnit))

NextVolume ==
  \/ VLAdjustMusicVolume
  \/ VLAnimateVolume
  \/ VLTimePasses

(***************************************************************************)
(* GLTransitionRenderer: actions                                           *)
(***************************************************************************)
RDStep(h) ==
  /\ variant = "renderer"
  /\ rd' = h
  /\ UNCHANGED <<variant, gl, md, vl, mt>>

RDUpdateFromTexture ==
  \E video \in VideoInputs : RDStep(UpdateFromTexture(rd, video))

RDUpdateToTexture ==
  \E video \in VideoInputs : RDStep(UpdateToTexture(rd, video))

RDRender ==
  \E progress \in {0, TimeUnit, TransitionDuration} :
    RDStep(Render(rd, progress))

NextRenderer ==
  \/ RDUpdateFromTexture
  \/ RDUpdateToTexture
  \/ RDRender

(***************************************************************************)
(* Media variant: actions of mute                                          *)
(***************************************************************************)
MTStep(h) ==
  /\ variant = "mute"
  /\ mt' = h
  /\ UNCHANGED <<variant, gl, md, vl, rd>>

\* A click on the mute button.
MTToggleMute ==
  \E h \in {ToggleMute(mt)} : MTStep(h)

\* A playlist click, ArrowUp/ArrowDown or an automatic advance, while an
\* element is free.
MTSwitchToMedia ==
  \E index \in MediaRequestIndices :
    /\ mt.currentMedia # 0 \/ FreeMuteId(mt) # 0
    /\ MTStep(MuteSwitchToMedia(mt, index))

MTMediaLoaded ==
  \E e \in MuteIds :
    /\ mt.elems[e].alive
    /\ mt.elems[e].ready = "loading"
    /\ MTStep(MuteMediaLoaded(mt, e))

MTMediaLoadError ==
  \E e \in MuteIds :
    /\ mt.elems[e].alive
    /\ mt.elems[e].ready = "loading"
    /\ MTStep(MuteLoadError(mt, e))

NextMute ==
  \/ MTToggleMute
  \/ MTSwitchToMedia
  \/ MTMediaLoaded
  \/ MTMediaLoadError

Next == NextGL \/ NextMedia \/ NextVolume \/ NextRenderer \/ NextMute

Spec == Init /\ [][Next]_vars

InitMedia == Init /\ variant = "media"

SpecMedia == InitMedia /\ [][NextMedia]_vars

InitGL == Init /\ variant = "gl"

InitVolume == Init /\ variant = "volume"

SpecVolume == InitVolume /\ [][NextVolume]_vars

SpecGL == InitGL /\ [][NextGL]_vars

InitRenderer == Init /\ variant = "renderer"

SpecRenderer == InitRenderer /\ [][NextRenderer]_vars

InitMute == Init /\ variant = "mute"

SpecMute == InitMute /\ [][NextMute]_vars

\* The browser runs pending frame callbacks and queued media events, and
\* the clock advances.
FairSpecGL ==
  /\ SpecGL
  /\ WF_vars(GLRampTick)
  /\ WF_vars(GLTimePasses)
  /\ WF_vars(GLDispatchEvent)


(***************************************************************************)
(* GL variant: properties                                                  *)
(***************************************************************************)
\* The step in which switchToVideo makes the pending video the current one.
GLSwap == gl'.currentIndex # gl.currentIndex

\* The step in which the ramp of performGLTransition begins.
GLRampBegins == gl.sw.pc # "ramp" /\ gl'.sw.pc = "ramp"

\* C1: in the GL variant a call of switchToVideo(i, autoPlay) made while
\* isTransitioning is true changes nothing, for every i and autoPlay: no
\* field of the player, no element, and the switch in flight (its target
\* and position) stay as they are.
C1_BusySwitchRejected ==
  (variant = "gl" /\ gl.isTransitioning) =>
    \A index \in RequestIndices, autoPlay \in BOOLEAN :
      SwitchToVideo(gl, index, autoPlay) = gl

\* A ramp under way, half done, with the pending video loaded.
C1_Witness ==
  /\ variant = "gl"
  /\ gl.isTransitioning
  /\ gl.sw.pc = "ramp"
  /\ gl.transitionProgress > 0
  /\ gl.nextVideo # 0

\* C4: in the GL variant the ramp begins only in the step in which the
\* pending video's load (and its play(), when requested) has settled with
\* the video loaded, and the swap happens only in a ramp tick whose
\* progress is 1; the current element is replaced in no other step, and it
\* stays in the document until then.
C4_PhaseOrder ==
  [][/\ GLRampBegins =>
          /\ gl.sw.pc \in {"loading", "playing"}
          /\ gl'.nextVideo # 0
          /\ gl'.elems[gl'.nextVideo].ready = "loaded"
          /\ gl'.transitionProgress = 0
     /\ GLSwap =>
          /\ gl.sw.pc = "ramp"
          /\ gl.rampFrame
          /\ gl.nextVideo # 0
          /\ ProgressAt(gl.elapsed) = TransitionDuration
          /\ gl'.currentIndex = gl.sw.index
          /\ gl'.elems[gl'.currentVideo].src = gl.sw.index
     /\ gl'.elems[gl'.currentVideo].src # gl.elems[gl.currentVideo].src
          => GLSwap
     /\ gl'.elems[gl'.currentVideo].attached]_vars

\* A switch has run through all its phases.
C4_Witness ==
  /\ variant = "gl"
  /\ gl.status = "GL Transition complete!"
  /\ gl.sw.pc = "idle"
  /\ gl.currentIndex = 2

\* C5 as stated: at the swap transitionProgress is exactly 1.
C5_ProgressOneAtSwap ==
  [][GLSwap => \/ gl.transitionProgress = TransitionDuration
               \/ gl'.transitionProgress = TransitionDuration]_vars

\* C5, amended: during the ramp transitionProgress never decreases, each
\* tick sets it to min(elapsed / duration, 1), the swap happens in the tick
\* whose progress is 1, and that tick leaves transitionProgress at 0.
C5_ProgressMonotoneThenReset ==
  [][/\ (gl.sw.pc = "ramp" /\ gl'.sw.pc = "ramp") =>
          /\ gl'.transitionProgress >= gl.transitionProgress
          /\ gl'.transitionProgress \in
               {gl.transitionProgress, ProgressAt(gl.elapsed)}
     /\ GLSwap =>
          /\ ProgressAt(gl.elapsed) = TransitionDuration
          /\ gl.transitionProgress < TransitionDuration
          /\ gl'.transitionProgress = 0]_vars

\* The swap has happened after a ramp of more than one tick.
C5_Witness ==
  /\ variant = "gl"
  /\ gl.status = "GL Transition complete!"
  /\ gl.transitionProgress = 0
  /\ gl.currentIndex = 1
  /\ gl.isPlaying

\* C6: in the GL variant, when the pending video fails to load the player
\* is idle again as before the request: same index, isPlaying as it was,
\* the pending element discarded, the error in the status.
C6_LoadFailureRestores ==
  [][(GLLoadError /\ gl.sw.pc = "loading" /\ gl'.sw.pc = "idle") =>
       /\ gl'.currentIndex = gl.currentIndex
       /\ ~gl'.isTransitioning
       /\ gl'.status = "Transition error"
       /\ gl'.nextVideo = 0
       /\ gl'.isPlaying = gl.sw.wasPlaying]_vars

\* C9 (GL part): when play() of the pending video is rejected during a
\* switch that wants playback, the switch still completes to its target.
C9_BlockedAutoplayCompletes ==
  [][(/\ GLLoadedMetadata
      /\ gl.sw.pc = "loading"
      /\ ShouldPlay(gl)
      /\ gl'.sw.pc = "idle") =>
       /\ gl'.currentIndex = gl.sw.index
       /\ gl'.status # "Transition error"]_vars

\* C10: in the GL variant, once the ramp of a switch to index i has begun,
\* the switch completes: the player becomes idle with currentIndex = i.
C10_RampCompletes ==
  \A i \in 0..(VideoCount - 1) :
    (variant = "gl" /\ gl.sw.pc = "ramp" /\ gl.sw.index = i)
      ~> (gl.sw.pc = "idle" /\ gl.currentIndex = i /\ ~gl.isTransitioning)

\* A ramp under way while an event of the outgoing video is queued.
C10_Witness ==
  /\ variant = "gl"
  /\ gl.sw.pc = "ramp"
  /\ gl.rampFrame
  /\ gl.elems[gl.currentVideo].pend # <<>>


(***************************************************************************)
(* Both variants: switching                                                *)
(***************************************************************************)
\* C2: in the Media variant a call of switchToMedia made while the load
\* of an earlier call is still awaited is rejected: it changes nothing.
C2_OneSwitchInFlight ==
  (variant = "media" /\ LoadsInFlight(md) # {}) =>
    \A index \in MediaRequestIndices, autoPlay \in BOOLEAN :
      SwitchToMedia(md, index, autoPlay) = md

\* C3: in both variants switchToVideo / switchToMedia with the current
\* index changes nothing, for either value of autoPlay: no element, no
\* listener, no field of the player.
C3_SameIndexNoOp ==
  \A autoPlay \in BOOLEAN :
    /\ variant = "gl" => SwitchToVideo(gl, gl.currentIndex, autoPlay) = gl
    /\ variant = "media" => SwitchToMedia(md, md.currentIndex, autoPlay) = md

\* The playing current item is entry 2, after a switch.
C3_Witness ==
  /\ variant = "media"
  /\ md.currentIndex = 2
  /\ md.currentMedia # 0
  /\ md.elems[md.currentMedia].src = 2
  /\ md.isPlaying

\* C7: in the Media variant, when the load awaited by switchToMedia fails,
\* the previous item is still the current one: currentMedia is not null.
C7_FailedLoadKeepsCurrent ==
  [][(/\ MDMediaLoadError
      /\ LoadsInFlight(md) # {}
      /\ LoadsInFlight(md') = {}) => md'.currentMedia # 0]_vars

\* The guards of GLVideoEnded and MDMediaEnded for the current item, with
\* no switch in progress.
CurrentVideoCanEnd ==
  /\ gl.currentVideo # 0
  /\ ~gl.isTransitioning
  /\ gl.elems[gl.currentVideo].ready = "loaded"
  /\ gl.elems[gl.currentVideo].pend = <<>>
  /\ ~gl.elems[gl.currentVideo].waitToggle

CurrentMediaCanEnd ==
  /\ IsVideo(md, md.currentMedia)
  /\ LoadsInFlight(md) = {}
  /\ md.elems[md.currentMedia].ready = "loaded"
  /\ md.elems[md.currentMedia].pend = <<>>
  /\ md.elems[md.currentMedia].wait = <<>>

CurrentImageCanEnd ==
  /\ IsImage(md, md.currentMedia)
  /\ LoadsInFlight(md) = {}
  /\ md.isPlaying
  /\ md.imgElapsed >= Duration(md)

OtherVideos ==
  {e \in ElemIds : /\ gl.elems[e].alive
                   /\ e # gl.currentVideo
                   /\ e # gl.nextVideo}

\* C11: in the GL variant every state after construction has exactly one
\* current video element, in the document, and at most one pending one,
\* distinct from it; every other element the player created is out of the
\* document and paused.
C11_OneCurrentOnePending ==
  variant = "gl" =>
    /\ gl.currentVideo # 0
    /\ gl.elems[gl.currentVideo].alive
    /\ gl.elems[gl.currentVideo].attached
    /\ gl.nextVideo # 0 =>
         /\ gl.elems[gl.nextVideo].alive
         /\ gl.nextVideo # gl.currentVideo
    /\ \A e \in OtherVideos :
         /\ ~gl.elems[e].attached
         /\ gl.elems[e].paused

\* After a swap the replaced first video still exists, with its 'pause'
\* event queued, while the next switch is loading its pending video.
C11_Witness ==
  /\ variant = "gl"
  /\ OtherVideos # {}
  /\ gl.currentIndex # 0


\* C12: in the GL variant, a step taken while isTransitioning is true
\* changes currentIndex or replaces the current video only if it is the
\* ramp tick that completes the switch in flight, and then currentIndex
\* becomes that switch's target; the current video is the one of
\* currentIndex before and after.
C12_CurrentChangesOnlyAtSwap ==
  [][(/\ variant = "gl"
      /\ gl.isTransitioning
      /\ \/ gl'.currentIndex # gl.currentIndex
         \/ gl'.elems[gl'.currentVideo].src # gl.elems[gl.currentVideo].src
         \/ gl'.elems[gl'.currentVideo].lst # gl.elems[gl.currentVideo].lst) =>
       /\ GLRampTick
       /\ gl.sw.pc = "ramp"
       /\ gl'.sw.pc = "idle"
       /\ ~gl'.isTransitioning
       /\ gl'.currentIndex = gl.sw.index
       /\ gl'.elems[gl'.currentVideo].src = gl.sw.index
       /\ gl.elems[gl.currentVideo].src = gl.currentIndex]_vars

\* During the load of a switch the user has started the current video
\* again with togglePlay.
C12_Witness ==
  /\ variant = "gl"
  /\ gl.isTransitioning
  /\ gl.sw.pc = "loading"
  /\ ~gl.elems[gl.currentVideo].paused


(***************************************************************************)
(* Media variant: music and blank video                                    *)
(***************************************************************************)
\* Every controller operation has finished: no load is awaited, no play()
\* promise, auto-play timeout or media event is pending.
MediaQuiescent ==
  \A e \in ElemIds :
    md.elems[e].alive =>
      /\ md.elems[e].ready # "loading"
      /\ md.elems[e].pend = <<>>
      /\ md.elems[e].wait = <<>>
      /\ ~md.elems[e].timer

\* C13: in the Media variant, once every controller operation has
\* finished, the background music does not play while isPlaying is false
\* (the half of "music plays iff isPlaying" that no autoplay policy can
\* break).
C13_MusicFollowsIsPlaying ==
  (variant = "media" /\ MediaQuiescent /\ ~md.isPlaying) => md.music.paused


\* C15 (target): in the Media variant, once a switch has completed with
\* its entry loaded and current and the music volume's target that of the
\* entry's kind, the target stays the one of the kind of the entry at
\* currentIndex as long as currentIndex stays.
C15_TargetStaysKindOfCurrentEntry ==
  [][(/\ variant = "media"
      /\ md.switches > 0
      /\ LoadsInFlight(md) = {}
      /\ md.currentMedia # 0
      /\ md.elems[md.currentMedia].src = md.currentIndex
      /\ md.musicTarget = MediaItem(md.currentIndex).type
      /\ md'.currentIndex = md.currentIndex) =>
       md'.musicTarget = MediaItem(md'.currentIndex).type]_vars


(***************************************************************************)
(* Media variant: the music volume ramp                                    *)
(***************************************************************************)
\* The ramp of the latest call of adjustMusicVolume.
NewestRamp(v) == (v.next \o v.pending)[Len(v.next) + Len(v.pending)]

Dist(a, b) == IF a < b THEN b - a ELSE a - b

\* C14 as stated: after a call of adjustMusicVolume no callback moves the
\* volume away from the target of the latest call (the earlier ramps no
\* longer write it).
C14_OnlyNewestRampWrites ==
  [][(variant = "volume" /\ VLAnimateVolume) =>
       Dist(vl'.volume, NewestRamp(vl).target)
         <= Dist(vl.volume, NewestRamp(vl).target)]_vars

\* What the ramps do keep: a call of adjustMusicVolume starts its ramp from
\* the volume at that instant and leaves the volume where it is; an earlier
\* ramp keeps writing the volume in its own callback, but the latest ramp
\* writes last in every frame, so that at the end of each frame the volume
\* is the latest ramp's, never farther from its target than at the end of
\* the frame before.
NewestRampWinsEachFrame ==
  [][/\ (variant = "volume" /\ vl'.adjusts # vl.adjusts) =>
          /\ NewestRamp(vl').start = vl.volume
          /\ vl'.volume = vl.volume
     /\ (variant = "volume" /\ VLAnimateVolume /\ ~vl'.inFrame) =>
          /\ vl'.volume = VolumeAt(NewestRamp(vl))
          /\ Dist(vl'.volume, NewestRamp(vl).target)
               <= Dist(vl.shown, NewestRamp(vl).target)]_vars

\* Two ramps are under way and a frame has ended after the second call,
\* with the volume off the second ramp's start.
TwoRampsUnderWay ==
  /\ variant = "volume"
  /\ ~vl.inFrame
  /\ Len(vl.pending) >= 2
  /\ vl.pending[1].target # vl.pending[2].target
  /\ vl.pending[2].elapsed > 0
  /\ vl.volume # vl.pending[2].start


(***************************************************************************)
(* Media variant: blank video, image seek, failed loads                    *)
(***************************************************************************)
\* C16: in the Media variant, once every controller operation has
\* finished, the blank video plays only while isPlaying is true (a playing
\* blank video has been started; the half of "playing iff isPlaying" that
\* no autoplay policy can break).
C16_BlankMirrorsIsPlaying ==
  (variant = "media" /\ MediaQuiescent /\ ~md.blank.paused) => md.isPlaying

\* C17: in the Media variant, after seek(T) on the current image every
\* tick of the image timer that writes currentTime reports at least T.
C17_TimerCountsFromSeek ==
  [][(/\ variant = "media"
      /\ MDImageTimerCallback
      /\ IsImage(md, md.currentMedia)
      /\ md.isPlaying
      /\ md.sought >= 0
      /\ md'.sought = md.sought) =>
       md'.currentTime >= md.sought]_vars

\* C18: in the Media variant, no loadCurrentMedia call still awaits a
\* resource that has failed to load.
C18_FailedLoadSettles ==
  variant = "media" =>
    \A e \in ElemIds :
      md.elems[e].alive => ~(md.elems[e].ready = "error" /\ md.elems[e].load)

(***************************************************************************)
(* Both variants: failures and construction                                *)
(***************************************************************************)
\* C19: in the GL variant, the step in which the current video fails to
\* load leaves the failure in the status.
C19_LoadFailureReported ==
  [][(/\ variant = "gl"
      /\ GLLoadError
      /\ gl.elems[gl.currentVideo].ready = "loading"
      /\ gl'.elems[gl'.currentVideo].ready = "error") =>
       gl'.status \in {"Transition error", "Playback error"}]_vars

\* C20: in both variants, until the first user input currentIndex is 0,
\* isPlaying is false, no play() has been called on the element of entry 0
\* (it is paused, with no play event, play() promise or auto-play timeout
\* pending) and no switch has started.
C20_NoAutoplayAtConstruction ==
  /\ (variant = "gl" /\ ~gl.touched) =>
       /\ gl.currentIndex = 0
       /\ ~gl.isPlaying
       /\ ~gl.isTransitioning
       /\ gl.sw.pc = "idle"
       /\ gl.nextVideo = 0
       /\ gl.elems[gl.currentVideo].src = 0
       /\ \A e \in ElemIds :
            gl.elems[e].alive =>
              /\ gl.elems[e].paused
              /\ gl.elems[e].pend = <<>>
              /\ ~gl.elems[e].waitToggle
  /\ (variant = "media" /\ ~md.touched) =>
       /\ md.currentIndex = 0
       /\ ~md.isPlaying
       /\ md.switches = 0
       /\ md.imageTimer = "null"
       /\ \A e \in ElemIds :
            md.elems[e].alive =>
              /\ md.elems[e].src = 0
              /\ md.elems[e].paused
              /\ md.elems[e].pend = <<>>
              /\ md.elems[e].wait = <<>>
              /\ ~md.elems[e].timer

\* Entry 0 has loaded and the blank video and the music have settled, the
\* blank video playing, before any user input.
C20_Witness ==
  /\ variant = "media"
  /\ ~md.touched
  /\ md.currentMedia # 0
  /\ md.elems[md.currentMedia].ready = "loaded"
  /\ md.status = "Video loaded. Ready to play."
  /\ md.music.settled
  /\ ~md.blank.paused


(***************************************************************************)
(* GL variant: listeners and the swap                                      *)
(***************************************************************************)
\* C21: in the GL variant the listeners of setupVideoEventListeners are on
\* the current video only, the element of the entry at currentIndex, so
\* that they are attached after the swap; the pending video carries no
\* playback listener, and the old video has lost its stored listeners
\* when the swap takes it out of the document.
C21_ListenersOnlyOnCurrent ==
  variant = "gl" =>
    /\ gl.nextVideo # 0 => gl.elems[gl.nextVideo].lst = "none"
    /\ \A e \in ElemIds :
         (gl.elems[e].alive /\ gl.elems[e].lst = "stored") =>
           /\ e = gl.currentVideo
           /\ gl.storedOn = e
           /\ gl.elems[e].src = gl.currentIndex
           /\ gl.elems[e].attached
    /\ gl.sw.pc = "ramp" =>
         /\ RetireCurrentVideo(gl).elems[gl.currentVideo].lst # "stored"
         /\ ~RetireCurrentVideo(gl).elems[gl.currentVideo].attached

\* A second switch is in its ramp: the current video carries the stored
\* listeners and the pending video plays.
C21_Witness ==
  /\ variant = "gl"
  /\ gl.sw.pc = "ramp"
  /\ gl.elems[gl.currentVideo].lst = "stored"
  /\ gl.nextVideo # 0
  /\ ~gl.elems[gl.nextVideo].paused

\* C22: in the GL variant, the step that completes a switch makes the
\* pending element the current one, with the stored listeners, clears
\* nextVideo, sets currentIndex to the target, ends the transition with
\* transitionProgress 0, reads duration from the new current element, and
\* leaves the old element paused, without stored listeners and out of the
\* document.
C22_SwapPostcondition ==
  [][(variant = "gl" /\ GLSwap) =>
       /\ gl'.elems[gl'.currentVideo] =
            [gl.elems[gl.nextVideo] EXCEPT !.lst = "stored"]
       /\ gl.elems[gl.nextVideo].ready = "loaded"
       /\ gl'.nextVideo = 0
       /\ gl'.currentIndex = gl.sw.index
       /\ gl'.elems[gl'.currentVideo].src = gl.sw.index
       /\ ~gl'.isTransitioning
       /\ gl'.sw.pc = "idle"
       /\ gl'.transitionProgress = 0
       /\ gl'.durationOf = gl.sw.index + 1
       /\ gl'.status = "GL Transition complete!"
       /\ \E r \in {CompleteSwitch(gl)} :
            /\ r.currentVideo = gl.nextVideo
            /\ r.elems[gl.currentVideo].paused
            /\ r.elems[gl.currentVideo].lst # "stored"
            /\ ~r.elems[gl.currentVideo].attached]_vars

\* A switch to entry 2 has just completed with the new video playing, and
\* the old element still has its 'pause' event queued.
C22_Witness ==
  /\ variant = "gl"
  /\ gl.status = "GL Transition complete!"
  /\ gl.currentIndex = 2
  /\ gl.durationOf = 3
  /\ gl.nextVideo = 0
  /\ ~gl.elems[gl.currentVideo].paused
  /\ \E e \in ElemIds :
       /\ e # gl.currentVideo
       /\ gl.elems[e].alive
       /\ gl.elems[e].pend # <<>>

\* C23: in the GL variant, an event queued on an element that a swap has
\* replaced as the current video changes neither isPlaying nor the switch
\* in flight when it is dispatched.
C23_ReplacedElementIsSilent ==
  variant = "gl" =>
    \A e \in OtherVideos :
      (gl.elems[e].lst # "none" /\ gl.elems[e].pend # <<>>) =>
        /\ DispatchEvent(gl, e).isPlaying = gl.isPlaying
        /\ DispatchEvent(gl, e).sw = gl.sw
        /\ DispatchEvent(gl, e).isTransitioning = gl.isTransitioning

\* No switch is in flight and no media event or play() promise is pending
\* on any element.
GLQuiescent ==
  /\ gl.sw.pc = "idle"
  /\ \A e \in ElemIds :
       gl.elems[e].alive =>
         /\ gl.elems[e].pend = <<>>
         /\ ~gl.elems[e].waitToggle
         /\ ~gl.elems[e].doomedToggle

\* C24: in the GL variant, in every quiescent state after a completed
\* switch (the current video carries the stored listeners), isPlaying is
\* true whenever the current video is playing (the half of "isPlaying iff
\* playing" that does not depend on the length of a clip).
C24_PlayingVideoMeansIsPlaying ==
  (/\ variant = "gl"
   /\ GLQuiescent
   /\ gl.elems[gl.currentVideo].lst = "stored"
   /\ ~gl.elems[gl.currentVideo].paused) =>
    gl.isPlaying

\* C25: in the GL variant, nextVideo is null in every state where
\* isTransitioning is false.
C25_NoPendingWhenIdle ==
  (variant = "gl" /\ ~gl.isTransitioning) => gl.nextVideo = 0


(***************************************************************************)
(* Media variant: overlapping loads                                        *)
(***************************************************************************)
\* C26: in the Media variant, whenever currentMedia is not null it is the
\* element loaded for the entry at currentIndex, and duration is that
\* entry's.
C26_CurrentMediaIsCurrentEntry ==
  (variant = "media" /\ md.currentMedia # 0) =>
    /\ md.elems[md.currentMedia].src = md.currentIndex
    /\ md.elems[md.currentMedia].kind = MediaItem(md.currentIndex).type
    /\ md.durationOf = md.currentIndex + 1

\* C27: in the Media variant, a loaded playlist element that plays is the
\* current one.
C27_OnlyCurrentPlays ==
  variant = "media" =>
    \A e \in ElemIds :
      (/\ md.elems[e].alive
       /\ md.elems[e].ready = "loaded"
       /\ ~md.elems[e].paused) =>
        e = md.currentMedia


(***************************************************************************)
(* Media variant: the image timer                                          *)
(***************************************************************************)
\* C28: in the Media variant at most one frame callback of the image timer
\* is pending, and it is the one imageTimer names; one that is pending
\* while isPlaying is false or no image is current changes nothing when it
\* runs; and none is left pending by togglePlay pausing a playing image, by
\* a switch away from a current image, or by the tick that advances at the
\* end of the image's duration.
C28_TimerStopsCleanly ==
  variant = "media" =>
    /\ md.timerOrphans = 0
    /\ md.timerFrame => md.imageTimer = "set"
    /\ (md.timerFrame /\ ~(md.isPlaying /\ IsImage(md, md.currentMedia))) =>
         \E m \in {[md EXCEPT !.timerFrame = FALSE]} : UpdateTimer(m) = m
    /\ (IsImage(md, md.currentMedia) /\ md.isPlaying) =>
         \E r \in {TogglePlayMedia(md)} :
           ~r.isPlaying /\ ~r.timerFrame /\ r.timerOrphans = 0
    /\ IsImage(md, md.currentMedia) =>
         \A index \in 0..(MediaCount - 1), autoPlay \in BOOLEAN :
           \E r \in {SwitchToMedia(md, index, autoPlay)} :
             (index # md.currentIndex /\ ~r.oom) =>
               /\ r.currentMedia = 0
               /\ ~r.timerFrame
               /\ r.timerOrphans = 0
    /\ (IsImage(md, md.currentMedia) /\ md.isPlaying /\ md.timerFrame) =>
         \E r \in {UpdateTimer([md EXCEPT !.timerFrame = FALSE,
                                          !.imgElapsed = Duration(md)])} :
           ~r.oom =>
             /\ r.currentIndex # md.currentIndex
             /\ ~r.timerFrame
             /\ r.timerOrphans = 0

\* An image that has played for a while has been paused with togglePlay.
C28_Witness ==
  /\ variant = "media"
  /\ IsImage(md, md.currentMedia)
  /\ ~md.isPlaying
  /\ md.currentTime > 0
  /\ md.sought < 0
  /\ md.imageTimer = "null"
  /\ ~md.timerFrame

\* C29: in the Media variant, togglePlay that resumes a paused image lets
\* the timer count on from the elapsed time shown (Date.now() -
\* imageStartTime equals currentTime at the resume).
C29_ResumeContinuesElapsed ==
  [][(/\ variant = "media"
      /\ MDTogglePlay
      /\ IsImage(md, md.currentMedia)
      /\ ~md.isPlaying
      /\ md'.isPlaying) =>
       md'.imgElapsed = md.currentTime]_vars

\* C30: in the Media variant, while an image is current, duration is the
\* duration of its entry (5 s when the entry gives none) and 0 <=
\* currentTime <= duration, in every state and after a timer tick that
\* comes any time later.
C30_ImageTimeInRange ==
  (variant = "media" /\ IsImage(md, md.currentMedia)) =>
    /\ md.durationOf = md.elems[md.currentMedia].src + 1
    /\ Duration(md) = ImageDuration(md.elems[md.currentMedia].src)
    /\ Duration(md) > 0
    /\ md.currentTime >= 0
    /\ md.currentTime <= Duration(md)
    /\ md.imgElapsed >= 0
    /\ \A k \in 0..MaxSkip :
         \E r \in {UpdateTimer([md EXCEPT
                                  !.imgElapsed = @ + k * ImageTimeUnit])} :
           r.currentTime >= 0 /\ r.currentTime <= Duration(md)

\* The image plays, its timer has ticked past the start, the clock has
\* run beyond the duration and the next tick is pending.
C30_Witness ==
  /\ variant = "media"
  /\ IsImage(md, md.currentMedia)
  /\ md.isPlaying
  /\ md.timerFrame
  /\ md.sought < 0
  /\ md.currentTime > 0
  /\ md.imgElapsed > Duration(md)


(***************************************************************************)
(* Media variant: the status of a failed switch                            *)
(***************************************************************************)
\* C31: in the Media variant, the step in which a resource fails to load
\* does not write the status "Media switched successfully!".
C31_FailedSwitchNotReportedSuccessful ==
  [][(/\ variant = "media"
      /\ MDMediaLoadError
      /\ md.status # "Media switched successfully!") =>
       md'.status # "Media switched successfully!"]_vars


(***************************************************************************)
(* GL variant: the render loop                                             *)
(***************************************************************************)
\* The result of every handler that can run in the current state of the GL
\* variant, before the model's bounds are applied to it.
GLHandlerResults ==
  {SwitchToVideo(gl, index, autoPlay) :
     index \in RequestIndices, autoPlay \in BOOLEAN}
  \cup {GoToNextVideo(gl, FALSE), GoToPreviousVideo(gl, FALSE),
        TogglePlay(gl)}
  \cup {DispatchEvent(gl, e) :
          e \in {x \in ElemIds : gl.elems[x].alive /\ gl.elems[x].pend # <<>>}}
  \cup {LoadedMetadata(gl, e, allowed) :
          e \in {x \in ElemIds : /\ gl.elems[x].alive
                                 /\ gl.elems[x].ready = "loading"},
          allowed \in BOOLEAN}
  \cup {LoadError(gl, e) :
          e \in {x \in ElemIds : /\ gl.elems[x].alive
                                 /\ gl.elems[x].ready = "loading"}}
  \cup {PlayStarted(gl, e) :
          e \in {x \in ElemIds :
                   /\ gl.elems[x].alive
                   /\ gl.elems[x].ready = "loaded"
                   /\ ~gl.elems[x].paused
                   /\ gl.elems[x].pend = <<>>
                   /\ \/ gl.elems[x].waitToggle
                      \/ (x = gl.nextVideo /\ gl.sw.pc = "playing")}}
  \cup {VideoEnded(gl, e) :
          e \in {x \in ElemIds :
                   /\ gl.elems[x].alive
                   /\ gl.elems[x].ready = "loaded"
                   /\ gl.elems[x].pend = <<>>
                   /\ ~gl.elems[x].waitToggle
                   /\ ~(x = gl.nextVideo /\ gl.sw.pc = "playing")
                   /\ ~gl.elems[x].paused \/ x = gl.currentVideo}}
  \cup (IF gl.renderFrame = "render"
        THEN {RenderFrame([gl EXCEPT !.renderFrame = "none"])}
        ELSE {})
  \cup (IF gl.rampFrame
        THEN {AnimateTransition([gl EXCEPT !.rampFrame = FALSE])}
        ELSE {})

\* C32: in the GL variant, no render callback is pending that animationId
\* does not name, in every reachable state and after every handler applied
\* to it: at most one render-loop callback is pending.
C32_OneRenderLoopPending ==
  variant = "gl" =>
    /\ gl.orphans = NoOrphans
    /\ gl.animationId = "null" => gl.renderFrame = "none"
    /\ \A h \in GLHandlerResults : h.orphans = NoOrphans

\* The render loop has a callback pending when the new video's play()
\* settles: performGLTransition is about to call startVideoRender.
C32_Witness ==
  /\ variant = "gl"
  /\ gl.sw.pc = "playing"
  /\ gl.renderFrame = "render"
  /\ gl.nextVideo # 0
  /\ ~gl.elems[gl.nextVideo].paused
  /\ gl.elems[gl.nextVideo].pend = <<>>


\* The calls of glRenderer.render that keep to the stated form: progress
\* within [0, 1] and, outside a transition, progress 0 with the current
\* video in both texture slots.
WellDrawn(g) ==
  /\ g.transitionProgress \in 0..TransitionDuration
  /\ \A c \in g.drawn :
       /\ c.progress \in 0..TransitionDuration
       /\ ~c.transitioning =>
            /\ c.progress = 0
            /\ c.from = "currentVideo"
            /\ c.to = "currentVideo"

\* C33: in the GL variant, transitionProgress and the progress of every
\* render call are within [0, 1], and every render call made while
\* isTransitioning is false passes progress 0 with the current video in
\* both slots, in every reachable state and after every handler.
C33_ProgressInRangeAndIdleDrawsCurrent ==
  variant = "gl" =>
    /\ WellDrawn(gl)
    /\ \A h \in GLHandlerResults : WellDrawn(h)

\* Both kinds of call have been made: one in the middle of a ramp, with
\* the pending video in the to slot, and one outside a transition while a
\* pending video exists (the switch has failed).
C33_Witness ==
  /\ variant = "gl"
  /\ \E c \in gl.drawn : c.transitioning /\ c.progress > 0
                          /\ c.to = "nextVideo"
  /\ \E c \in gl.drawn : ~c.transitioning
  /\ ~gl.isTransitioning
  /\ gl.nextVideo # 0


(***************************************************************************)
(* GLTransitionRenderer: uploads                                           *)
(***************************************************************************)
\* C34: updateFromTexture and updateToTexture called with a video that is
\* not decodable return normally and leave both textures and the drawn
\* picture as they were, so that the next render draws the last valid
\* uploads; called with a decodable video they replace the named texture
\* by that video's frame and leave the other one alone.
C34_UploadOnlyWhenDecodable ==
  variant = "renderer" =>
    /\ rd.fromTexture \in {NoImage} \cup (1..MaxVideos)
    /\ rd.toTexture \in {NoImage} \cup (1..MaxVideos)
    /\ \A video \in VideoInputs :
         LET f == UpdateFromTexture(rd, video)
             t == UpdateToTexture(rd, video)
         IN /\ f.toTexture = rd.toTexture
            /\ t.fromTexture = rd.fromTexture
            /\ f.shown = rd.shown /\ t.shown = rd.shown
            /\ Decodable(video) =>
                 /\ f.fromTexture = video.id
                 /\ t.toTexture = video.id
            /\ ~Decodable(video) =>
                 /\ f.fromTexture = rd.fromTexture
                 /\ t.toTexture = rd.toTexture
                 /\ Render(f, 0).shown = <<rd.fromTexture, rd.toTexture>>
                 /\ Render(t, 0).shown = <<rd.fromTexture, rd.toTexture>>

\* updateFromTexture has just been called with a video that has no frame
\* yet, while both textures hold earlier uploads of different videos.
C34_Witness ==
  /\ variant = "renderer"
  /\ rd.last.op = "updateFromTexture"
  /\ ~Decodable(rd.last.video)
  /\ rd.last.video.readyState < HaveCurrentData
  /\ rd.fromTexture \in 1..MaxVideos
  /\ rd.toTexture \in 1..MaxVideos
  /\ rd.fromTexture # rd.toTexture


(***************************************************************************)
(* Media variant: the blank video between an image and a video             *)
(***************************************************************************)
\* The result of every handler of the Media variant that can run in state
\* m without a further call of switchToMedia and without the clock.
MDHandlerResults(m) ==
  {TogglePlayMedia(m)}
  \cup {MediaLoaded(m, e, allowed) :
          e \in {x \in ElemIds : /\ m.elems[x].alive
                                 /\ m.elems[x].ready = "loading"},
          allowed \in BOOLEAN}
  \cup {MediaLoadError(m, e) :
          e \in {x \in ElemIds : /\ m.elems[x].alive
                                 /\ m.elems[x].ready = "loading"}}
  \cup {AutoPlayTimeout(m, e, allowed) :
          e \in {x \in ElemIds : m.elems[x].alive /\ m.elems[x].timer},
          allowed \in BOOLEAN}
  \cup {MediaPlayStarted(m, e, allowed) :
          e \in {x \in ElemIds : /\ m.elems[x].alive
                                 /\ m.elems[x].ready = "loaded"
                                 /\ ~m.elems[x].paused
                                 /\ m.elems[x].pend = <<>>
                                 /\ m.elems[x].wait # <<>>},
          allowed \in BOOLEAN}
  \cup {DispatchMediaEvent(m, e, allowed) :
          e \in {x \in ElemIds : /\ m.elems[x].alive
                                 /\ m.elems[x].pend # <<>>},
          allowed \in BOOLEAN}

\* The video element created for the current entry has not fired 'play'.
AwaitsFirstPlay(m) ==
  /\ ~m.oom
  /\ MediaItem(m.currentIndex).type = "video"
  /\ \E e \in ElemIds : /\ m.elems[e].alive
                         /\ m.elems[e].src = m.currentIndex
                         /\ m.elems[e].once
                         /\ \A i \in 1..Len(m.elems[e].pend) :
                              m.elems[e].pend[i].ev # "play"

\* The states that n handlers can lead to from the states ms while the
\* video of the current entry has not fired 'play'.
StepsToFirstPlay == 3
RECURSIVE BeforeFirstPlay(_, _)
BeforeFirstPlay(ms, n) ==
  IF n = 0 THEN ms
  ELSE ms \cup BeforeFirstPlay(
                 {GcMedia(h) : h \in {x \in UNION {MDHandlerResults(m) : m \in ms} :
                                        ~x.oom}},
                 n - 1)

\* The advance at the end of a playing image to a video entry, at a moment
\* when no event, no play() promise and no auto-play timeout of an earlier
\* element is outstanding.
ImageEndsIntoVideo ==
  IF /\ variant = "media"
     /\ md.isPlaying
     /\ IsImage(md, md.currentMedia)
     /\ md.timerFrame
     /\ md.imgElapsed >= Duration(md)
     /\ MediaItem((md.currentIndex + 1) % MediaCount).type = "video"
     /\ \A e \in ElemIds : /\ md.elems[e].pend = <<>>
                            /\ md.elems[e].wait = <<>>
                            /\ ~md.elems[e].timer
  THEN {GcMedia(h) : h \in {x \in {UpdateTimer([md EXCEPT !.timerFrame = FALSE])} :
                               ~x.oom}}
  ELSE {}

\* C35: in the Media variant, when a playing image ends while the blank
\* video plays and the player advances to a video entry, the blank video
\* still plays in every state that handlers lead to before the video of
\* that entry has fired 'play'.
C35_BlankPlaysUntilFirstPlay ==
  (variant = "media" /\ ~md.blank.paused) =>
    \A h \in BeforeFirstPlay(ImageEndsIntoVideo, StepsToFirstPlay) :
      AwaitsFirstPlay(h) => ~h.blank.paused


(***************************************************************************)
(* Media variant: mute follows isMuted                                     *)
(***************************************************************************)
\* C36: in the Media variant, whenever no element is loading, the
\* background music is muted exactly when isMuted is true, and so is the
\* current media element when it is a video.
C36_MutedFollowsIsMuted ==
  (variant = "mute" /\ \A e \in MuteIds : ~(/\ mt.elems[e].alive
                                           /\ mt.elems[e].ready = "loading")) =>
    /\ mt.musicMuted = mt.isMuted
    /\ (mt.currentMedia # 0 /\ mt.elems[mt.currentMedia].kind = "video") =>
         mt.elems[mt.currentMedia].muted = mt.isMuted


(***************************************************************************)
(* Both variants: currentIndex                                             *)
(***************************************************************************)
\* The indices outside the playlist that a request is tried with.
OutOfRange(count) == {0 - 1, count, count + 1}

\* C37: in both variants currentIndex is an index of the playlist in every
\* reachable state and after every handler applied to it; a switch
\* request with an index outside the playlist returns the state as it
\* was; and "previous" at index 0 asks for the last index.
C37_CurrentIndexValid ==
  /\ variant = "gl" =>
       /\ gl.currentIndex \in 0..(VideoCount - 1)
       /\ \A h \in GLHandlerResults : h.currentIndex \in 0..(VideoCount - 1)
       /\ gl.sw.pc # "idle" => gl.sw.index \in 0..(VideoCount - 1)
       /\ \A index \in OutOfRange(VideoCount), autoPlay \in BOOLEAN :
            SwitchToVideo(gl, index, autoPlay) = gl
       /\ (gl.currentIndex = 0 /\ ~gl.isTransitioning) =>
            /\ GoToPreviousVideo(gl, FALSE).sw.pc = "loading"
            /\ GoToPreviousVideo(gl, FALSE).sw.index = VideoCount - 1
  /\ variant = "media" =>
       /\ md.currentIndex \in 0..(MediaCount - 1)
       /\ \A h \in MDHandlerResults(md) :
            h.currentIndex \in 0..(MediaCount - 1)
       /\ \A index \in 0..(MediaCount - 1), autoPlay \in BOOLEAN :
            SwitchToMedia(md, index, autoPlay).currentIndex = index
       /\ UpdateTimer(md).currentIndex \in 0..(MediaCount - 1)
       /\ \A index \in OutOfRange(MediaCount), autoPlay \in BOOLEAN :
            SwitchToMedia(md, index, autoPlay) = md
       /\ md.currentIndex = 0 =>
            GoToPreviousMedia(md, FALSE).currentIndex = MediaCount - 1
       /\ md.currentIndex = MediaCount - 1 =>
            GoToNextMedia(md, TRUE).currentIndex = 0

\* The GL player has completed a switch from index 0 to the last index and
\* is idle there.
C37_Witness ==
  /\ variant = "gl"
  /\ gl.currentIndex = VideoCount - 1
  /\ gl.sw.pc = "idle"
  /\ ~gl.isTransitioning
  /\ gl.status = "GL Transition complete!"

=============================================================================
